---- MODULE Spec2Model ----
(***************************************************************************)
(* Batch translation pipeline of the srt service: the batch clients'       *)
(* completion polling, the request builders and the result parsers.        *)
(*                                                                         *)
(* Nine state machines share the module, each with its own specification:  *)
(*   SpecWait / FairSpecWait  wait_until_done of the three batch clients   *)
(*   SpecBuild                build of the three request builders          *)
(*   SpecParse                split_by_language of the three parsers       *)
(*   SpecApply                apply_translations of the three parsers      *)
(*   SpecJson                 safe_json_parse, attempt by attempt          *)
(*   SpecRun                  two runs of translate_and_notify             *)
(*   SpecSignal               worker threads patching signal.signal        *)
(*   SpecDecode               decoding of the input by build and apply     *)
(*   SpecLoop                 the loop over the languages of a run         *)
(* A specification holds the variables of the other machines at their idle *)
(* values.                                                                 *)
(***************************************************************************)
EXTENDS Integers, Sequences, FiniteSets, TLC

VARIABLES
    \* ---- batch client (wait_until_done) ----
    client,       \* which client runs: "gemini", "openai" (async), "openai_sync"
    jobState,     \* the provider's job state
    jobError,     \* the provider's error text for the job ("" when it gave none)
    jobUsage,     \* where the job metadata carries usage data
    jobDest,      \* TRUE when the job metadata names a result file
    observed,     \* the job state seen by the last successful status query
    wpc,          \* position of wait_until_done: poll, sleep, returned, raised
    outcome,      \* what wait_until_done returned or raised
    failures,     \* number of status queries that failed so far
    \* ---- request builder (build) ----
    builder,      \* which builder runs: "gemini", "openai", "openai_legacy"
    subtitles,    \* the decoded records, a sequence of record texts
    languages,    \* the language list passed by the caller
    batch_size,   \* the chunk size passed by the caller
    doc,          \* the request document written so far
    li,           \* position in the language list (outer loop)
    ci,           \* start index of the next chunk (inner loop)
    bpc,          \* position of build: start, write, done, raised
    \* ---- result parser (split_by_language) ----
    parser,       \* which parser runs: "gemini", "openai", "openai_legacy"
    batch_output, \* the result document, a sequence of lines
    lineNo,       \* number of lines consumed
    results,      \* the mapping language -> items built so far
    ppc,          \* position of split_by_language: loop, returned, raised
    \* ---- reassembler (apply_translations) ----
    applier,          \* which parser's apply_translations runs
    original,         \* the records decoded from the original file
    translated_lines, \* the recovered translations of one language
    item_no,          \* number of items the loop has consumed
    work,             \* OpenAI: the subtitles list as rewritten so far
    translation_map,  \* Gemini: index -> content, a set of <<index, content>>
    output_srt,       \* the output file: NoFile, or the records written
    apc,               \* position of apply_translations
    \* ---- lenient array extraction (safe_json_parse) ----
    jparser,          \* which parser's safe_json_parse runs
    llm_content,      \* the payload text it is given
    jpc,              \* position: enter, direct, fence, span, returned, raised
    jresult,           \* the list it returned
    \* ---- pipeline runs (translate_and_notify), one entry per run ----
    service,          \* which service runs: "gemini", "openai", "openai_legacy"
    notify_mode,      \* "per_language" or "bundle"
    deployment,       \* Settings.deployment: "local" or "prod"
    files,            \* temp folder: request document name -> run whose requests it holds
    rpc,              \* position of the run
    seen,             \* job state the run's last status query returned
    uploaded,         \* run whose requests the uploaded document held
    uploads,          \* number of uploads made
    jobs,             \* number of batch jobs created
    nlang,            \* number of languages split_by_language returned
    outputs,          \* number of per-language output files written
    calls,            \* notification calls sent, in order
    err,               \* what made the run raise
    \* ---- signal patching (SignalPatcher, one entry per worker thread) ----
    sig,              \* the function signal.signal names: 0, or t for thread t's safe_signal
    rsig,             \* the function signal.raise_signal names
    osig,             \* original_signal as each thread read it
    orsig,            \* original_raise_signal as each thread read it
    tpc,              \* position of each worker thread
    status,            \* what each worker reported
    \* ---- decoding of the input file (build, then apply_translations) ----
    dside,            \* whose builder and reassembler read: "gemini", "openai", "openai_legacy"
    dfile,            \* the file: what chardet reports and which encodings decode it
    dtry,             \* number of encodings the reader at work has tried
    dpc,              \* position: build, apply, done, raised
    benc,             \* the encoding build read the file with
    aenc,              \* the encoding apply_translations read the file with
    \* ---- the loop over the languages of translate_and_notify ----
    lservice,         \* which service runs
    lrequested,       \* the languages passed to the run
    ldoc,             \* the result document downloaded
    lresults,         \* the mapping split_by_language returned
    lpos,             \* number of languages the loop has passed
    lwritten,         \* languages whose output file this run wrote
    lreported,        \* languages of translated_files / bundle_payload, in order
    lpc               \* position: split, loop, returned, raised

waitVars  == <<client, jobState, jobError, jobUsage, jobDest, observed, wpc, outcome, failures>>
buildVars == <<builder, subtitles, languages, batch_size, doc, li, ci, bpc>>
parseVars == <<parser, batch_output, lineNo, results, ppc>>
applyVars == <<applier, original, translated_lines, item_no, work, translation_map,
               output_srt, apc>>
jsonVars == <<jparser, llm_content, jpc, jresult>>
runVars == <<service, notify_mode, deployment, files, rpc, seen, uploaded, uploads, jobs,
             nlang, outputs, calls, err>>
signalVars == <<sig, rsig, osig, orsig, tpc, status>>
decodeVars == <<dside, dfile, dtry, dpc, benc, aenc>>
loopVars == <<lservice, lrequested, ldoc, lresults, lpos, lwritten, lreported, lpc>>
vars      == <<waitVars, buildVars, parseVars, applyVars, jsonVars, runVars, signalVars, decodeVars, loopVars>>

(***************************************************************************)
(* Batch client: job states and wait_until_done                            *)
(***************************************************************************)

\* Job states of spec section 4.3.  The Gemini client sees them as
\* JOB_STATE_PENDING/RUNNING/SUCCEEDED/FAILED/CANCELLED/EXPIRED, the OpenAI
\* clients as validating/in_progress/completed/failed/cancelled/expired.
completed_states == {"Succeeded", "Failed", "Cancelled", "Expired"}

FailedStates == completed_states \ {"Succeeded"}

Clients == {"gemini", "openai", "openai_sync"}

\* a status query may fail at most MaxFailures times in one wait
MaxFailures == 2

NoOutcome == [kind |-> "none", handle |-> "", usage |-> "", state |-> "", error |-> ""]

ZeroUsage == "zero"

\* an output path at which nothing was written
\* no payload text at all
NoText == [form |-> "none", items |-> <<>>]

NoFile == [written |-> FALSE, records |-> <<>>]

\* Gemini: usage from usage_metadata, else from usage, else zeroes.
GeminiUsageInfo(usage) ==
    CASE usage = "usage_metadata" -> "from_usage_metadata"
      [] usage = "usage"          -> "from_usage"
      [] OTHER                    -> ZeroUsage

\* the usage read without asking whether the metadata carries it
OpenAIUsageUnguarded(usage) == "from_usage"

\* OpenAI: usage = {} unless batch.usage is set.
OpenAIUsage(usage) ==
    IF usage = "usage" THEN "from_usage" ELSE "empty"

\* Gemini: the code after the polling loop, for a job seen in a completed state.
GeminiAfterLoop(state, error, usage, dest) ==
    IF state # "Succeeded"
    THEN [kind |-> "raised", handle |-> "", usage |-> "", state |-> state, error |-> error]
    ELSE [kind |-> "returned",
          handle |-> IF dest THEN "result_file" ELSE "None",
          usage |-> GeminiUsageInfo(usage), state |-> state, error |-> ""]

\* which observed states end the Gemini polling loop
GeminiLoopEnds(state) == state \in completed_states

\* which observed states end the OpenAI polling loop (batch.status == "completed")
OpenAILoopEnds(state) == state = "Succeeded"

OpenAIReturn(state, usage, dest) ==
    [kind |-> "returned",
     handle |-> IF dest THEN "output_file_id" ELSE "None",
     usage |-> OpenAIUsage(usage), state |-> state, error |-> ""]

\* One iteration of the Gemini loop whose status query succeeds.
GeminiPoll ==
    /\ client = "gemini" /\ wpc = "poll"
    /\ observed' = jobState
    /\ IF GeminiLoopEnds(jobState)
       THEN /\ outcome' = GeminiAfterLoop(jobState, jobError, jobUsage, jobDest)
            /\ wpc' = outcome'.kind
       ELSE /\ wpc' = "sleep"
            /\ UNCHANGED outcome
    /\ UNCHANGED <<client, jobState, jobError, jobUsage, jobDest, failures>>
    /\ UNCHANGED <<buildVars, parseVars, applyVars, jsonVars, runVars, signalVars, decodeVars, loopVars>>

\* a Gemini loop without the handler: the status query's exception leaves
\* wait_until_done
GeminiPollFailsEndsWait ==
    /\ client = "gemini" /\ wpc = "poll"
    /\ failures < MaxFailures
    /\ failures' = failures + 1
    /\ outcome' = [kind |-> "raised", handle |-> "", usage |-> "",
                   state |-> "", error |-> "query failed"]
    /\ wpc' = "raised"
    /\ UNCHANGED <<client, jobState, jobError, jobUsage, jobDest, observed>>
    /\ UNCHANGED <<buildVars, parseVars, applyVars, jsonVars, runVars, signalVars, decodeVars, loopVars>>

\* One iteration of the Gemini loop whose status query raises: the handler
\* logs, sleeps one interval and the loop goes on.
GeminiPollFails ==
    /\ client = "gemini" /\ wpc = "poll"
    /\ failures < MaxFailures
    /\ failures' = failures + 1
    /\ wpc' = "sleep"
    /\ UNCHANGED <<client, jobState, jobError, jobUsage, jobDest, observed, outcome>>
    /\ UNCHANGED <<buildVars, parseVars, applyVars, jsonVars, runVars, signalVars, decodeVars, loopVars>>

\* One iteration of the loop of either OpenAI client, the query succeeding.
OpenAIPoll ==
    /\ client \in {"openai", "openai_sync"} /\ wpc = "poll"
    /\ observed' = jobState
    /\ IF OpenAILoopEnds(jobState)
       THEN /\ outcome' = OpenAIReturn(jobState, jobUsage, jobDest)
            /\ wpc' = "returned"
       ELSE /\ wpc' = "sleep"
            /\ UNCHANGED outcome
    /\ UNCHANGED <<client, jobState, jobError, jobUsage, jobDest, failures>>
    /\ UNCHANGED <<buildVars, parseVars, applyVars, jsonVars, runVars, signalVars, decodeVars, loopVars>>

\* batches.retrieve raises: nothing in the OpenAI clients catches it.
OpenAIPollFails ==
    /\ client \in {"openai", "openai_sync"} /\ wpc = "poll"
    /\ failures < MaxFailures
    /\ failures' = failures + 1
    /\ outcome' = [kind |-> "raised", handle |-> "", usage |-> "",
                   state |-> "", error |-> "query failed"]
    /\ wpc' = "raised"
    /\ UNCHANGED <<client, jobState, jobError, jobUsage, jobDest, observed>>
    /\ UNCHANGED <<buildVars, parseVars, applyVars, jsonVars, runVars, signalVars, decodeVars, loopVars>>

\* The poll interval elapses (asyncio.sleep / time.sleep returns).
Sleep ==
    /\ wpc = "sleep"
    /\ wpc' = "poll"
    /\ UNCHANGED <<client, jobState, jobError, jobUsage, jobDest, observed, outcome, failures>>
    /\ UNCHANGED <<buildVars, parseVars, applyVars, jsonVars, runVars, signalVars, decodeVars, loopVars>>

\* The provider moves the job: Submitted -> Running.
JobRuns ==
    /\ client \in Clients
    /\ jobState = "Submitted"
    /\ jobState' = "Running"
    /\ UNCHANGED <<client, jobError, jobUsage, jobDest, observed, wpc, outcome, failures>>
    /\ UNCHANGED <<buildVars, parseVars, applyVars, jsonVars, runVars, signalVars, decodeVars, loopVars>>

\* The provider ends the job in a terminal state, which it never leaves.
JobEnds ==
    /\ client \in Clients
    /\ jobState \in {"Submitted", "Running"}
    /\ \E s \in completed_states :
         /\ jobState' = s
         /\ IF s = "Succeeded"
            THEN /\ jobError' = ""
                 /\ jobUsage' \in {"absent", "usage_metadata", "usage"}
                 /\ jobDest' \in BOOLEAN
            ELSE /\ jobError' \in {"", "provider error"}
                 /\ jobUsage' = "absent"
                 /\ jobDest' = FALSE
    /\ UNCHANGED <<client, observed, wpc, outcome, failures>>
    /\ UNCHANGED <<buildVars, parseVars, applyVars, jsonVars, runVars, signalVars, decodeVars, loopVars>>

\* wait_until_done is entered right after the job was created.
InitWait ==
    /\ client \in Clients
    /\ jobState = "Submitted" /\ jobError = "" /\ jobUsage = "absent" /\ jobDest = FALSE
    /\ observed = "none" /\ wpc = "poll" /\ outcome = NoOutcome /\ failures = 0
    /\ builder = "none" /\ subtitles = <<>> /\ languages = <<>> /\ batch_size = 0
    /\ doc = <<>> /\ li = 0 /\ ci = 0 /\ bpc = "idle"
    /\ parser = "none" /\ batch_output = <<>> /\ lineNo = 0 /\ results = <<>>
    /\ ppc = "idle"
    /\ applier = "none" /\ original = <<>> /\ translated_lines = <<>> /\ item_no = 0
    /\ work = <<>> /\ translation_map = {} /\ output_srt = NoFile /\ apc = "idle"
    /\ jparser = "none" /\ llm_content = NoText /\ jpc = "idle" /\ jresult = <<>>
    /\ service = <<>> /\ notify_mode = <<>> /\ deployment = "local" /\ files = <<>>
    /\ rpc = <<>> /\ seen = <<>> /\ uploaded = <<>> /\ uploads = <<>> /\ jobs = <<>>
    /\ nlang = <<>> /\ outputs = <<>> /\ calls = <<>> /\ err = <<>>
    /\ sig = 0 /\ rsig = 0 /\ osig = <<>> /\ orsig = <<>> /\ tpc = <<>>
    /\ status = <<>>
    /\ dside = "none" /\ dfile = <<>> /\ dtry = 0 /\ dpc = "idle" /\ benc = "none"
    /\ aenc = "none"
    /\ lservice = "none" /\ lrequested = <<>> /\ ldoc = <<>> /\ lresults = <<>>
    /\ lpos = 0 /\ lwritten = {} /\ lreported = <<>> /\ lpc = "idle"

WaitStep == GeminiPoll \/ GeminiPollFails \/ OpenAIPoll \/ OpenAIPollFails \/ Sleep

NextWait ==
    \/ GeminiPoll \/ GeminiPollFails \/ OpenAIPoll \/ OpenAIPollFails
    \/ Sleep \/ JobRuns \/ JobEnds

SpecWait == InitWait /\ [][NextWait]_vars

\* The event loop resumes a client that can take a step; the provider is
\* under no obligation to move the job.
FairSpecWait == SpecWait /\ WF_vars(WaitStep)

\* C1: whenever the job is in a terminal state (which it never leaves),
\* wait_until_done eventually stops polling and returns or raises, for every
\* client, status queries failing only finitely often.
C1_TerminalJobEndsWait ==
    (jobState \in completed_states) ~> (wpc \in {"returned", "raised"})

\* C2: wait_until_done returns only when the last observed state is
\* Succeeded, and an observed Failed, Cancelled or Expired state makes it
\* raise an error that carries the provider's error text, returning nothing.
C2_ReturnOnlyOnSuccess ==
    /\ wpc = "returned" => observed = "Succeeded" /\ outcome.kind = "returned"
    /\ observed \in FailedStates =>
         /\ wpc = "raised"
         /\ outcome.kind = "raised" /\ outcome.handle = "" /\ outcome.usage = ""
         /\ outcome.state = observed /\ outcome.error = jobError

(***************************************************************************)
(* Strings are sequences of one-character strings, so that the correlation *)
(* key is really written and really split.                                 *)
(***************************************************************************)

Digits == <<"0", "1", "2", "3", "4", "5", "6", "7", "8", "9">>

\* str(n) of a non-negative integer, as the f-string "{language}:{i}" formats i
RECURSIVE Str(_)
Str(n) == IF n < 10 THEN <<Digits[n + 1]>> ELSE Str(n \div 10) \o <<Digits[(n % 10) + 1]>>

Min(a, b) == IF a < b THEN a ELSE b

Max(a, b) == IF a > b THEN a ELSE b

\* positions of the delimiter ":" in a string
ColonPositions(s) == {p \in 1 .. Len(s) : s[p] = ":"}

FirstColon(s) == CHOOSE p \in ColonPositions(s) : \A q \in ColonPositions(s) : p <= q

LastColon(s) == CHOOSE p \in ColonPositions(s) : \A q \in ColonPositions(s) : p >= q

\* s.rsplit(":", 1): the pieces around the last ":", or s alone
rsplit(s) ==
    IF ColonPositions(s) = {} THEN <<s>>
    ELSE <<SubSeq(s, 1, LastColon(s) - 1), SubSeq(s, LastColon(s) + 1, Len(s))>>

\* s.split(":", 1): the pieces around the first ":", or s alone
split(s) ==
    IF ColonPositions(s) = {} THEN <<s>>
    ELSE <<SubSeq(s, 1, FirstColon(s) - 1), SubSeq(s, FirstColon(s) + 1, Len(s))>>

DigitValue(c) == CHOOSE d \in 0 .. 9 : Digits[d + 1] = c

IsDigits(s) == Len(s) > 0 /\ \A p \in 1 .. Len(s) : \E d \in 0 .. 9 : Digits[d + 1] = s[p]

RECURSIVE DigitsValue(_)
DigitsValue(s) ==
    IF Len(s) = 0 THEN 0
    ELSE 10 * DigitsValue(SubSeq(s, 1, Len(s) - 1)) + DigitValue(s[Len(s)])

\* int(s) over the characters that occur in keys (digits, letters, ":"):
\* the number, or ok = FALSE where int() raises ValueError
int(s) ==
    IF IsDigits(s) THEN [ok |-> TRUE, value |-> DigitsValue(s)]
    ELSE [ok |-> FALSE, value |-> 0]

(***************************************************************************)
(* Request builders: MultiLangBatchJobBuilder.build (two copies) and        *)
(* GeminiBatchJobBuilder.build                                             *)
(***************************************************************************)

Builders == {"gemini", "openai", "openai_legacy"}

\* the languages a caller may name; one of them contains the key delimiter
LangNames == {<<"f", "r">>, <<"d", "e">>, <<"z", ":", "h">>}

\* longest language list and largest small record count that are enumerated
MaxLangs == 2
MaxN == 3

\* the provider-safe maximum of the chunk size
MaxChunk == 60

\* Settings.batch_size when the environment does not set it
DefaultBatchSize == 100

\* record counts: the small ones, and those around one and two full chunks
NValues == (0 .. MaxN) \cup {MaxChunk, MaxChunk + 1, 2 * MaxChunk + 1}

\* chunk sizes a caller (the configuration) may pass
BatchSizes == {-1, 0, 1, 2, MaxChunk - 1, MaxChunk, MaxChunk + 1, DefaultBatchSize}

LangLists == UNION {[1 .. n -> LangNames] : n \in 0 .. MaxLangs}

\* the text of the record at absolute position i (0-based): all texts differ
TextOf(i) == 1000 + i

\* the chunk size taken as passed, the cap forgotten
UncappedBatchSize(size) == size

\* batch_size = min(batch_size, 60)
SafeBatchSize(size) == Min(size, MaxChunk)

\* a key that names the language alone
CorrelationKeyNoIndex(language, i) == language \o <<":">> \o Str(0)

\* f"{language}:{i}"
CorrelationKey(language, i) == language \o <<":">> \o Str(i)

\* chunk = subtitles[i : i + batch_size]
Chunk(subs, i, size) == SubSeq(subs, i + 1, Min(i + size, Len(subs)))

\* a payload numbered from 0 inside each chunk
PayloadChunkLocal(chunk, start_index) ==
    [j \in 1 .. Len(chunk) |-> [index |-> j - 1, content |-> chunk[j]]]

\* payload = [{"index": i + j, "content": s.content} for j, s in enumerate(chunk)]
Payload(chunk, start_index) ==
    [j \in 1 .. Len(chunk) |-> [index |-> start_index + (j - 1), content |-> chunk[j]]]

\* the target language as the instruction text names it: the Gemini prompt is
\* an f-string, the OpenAI system message is a plain string literal
PromptLanguage(b, language) ==
    IF b = "gemini" THEN language ELSE <<"{", "l", "a", "n", "g", "u", "a", "g", "e", "}">>

\* one request of the document
create_batch_request(b, chunk, language, start_index) ==
    [key         |-> CorrelationKey(language, start_index),
     payload     |-> Payload(chunk, start_index),
     instruction |-> PromptLanguage(b, language)]

\* a range that stops before a last, shorter chunk
InRangeDropsTail(i, n, size) == size > 0 /\ i + size <= n

\* range(0, len(subtitles), batch_size) still has the element i
InRange(i, n, size) == size > 0 /\ i < n

\* build is entered: the file is decoded, the chunk size capped, and the
\* output file opened for writing (truncated).
BuildOpen ==
    /\ bpc = "start"
    /\ doc' = <<>>
    /\ li' = 1 /\ ci' = 0
    /\ bpc' = "write"
    /\ UNCHANGED <<builder, subtitles, languages, batch_size>>
    /\ UNCHANGED <<waitVars, parseVars, applyVars, jsonVars, runVars, signalVars, decodeVars, loopVars>>

\* range() refuses a step of zero: build raises ValueError at the first language.
BuildRangeError ==
    /\ bpc = "write" /\ li <= Len(languages)
    /\ SafeBatchSize(batch_size) = 0
    /\ bpc' = "raised"
    /\ UNCHANGED <<builder, subtitles, languages, batch_size, doc, li, ci>>
    /\ UNCHANGED <<waitVars, parseVars, applyVars, jsonVars, runVars, signalVars, decodeVars, loopVars>>

\* the loops nested the other way round: every language of a chunk, then
\* the next chunk
BuildWriteChunkMajor ==
    /\ bpc = "write" /\ li <= Len(languages)
    /\ SafeBatchSize(batch_size) # 0
    /\ InRange(ci, Len(subtitles), SafeBatchSize(batch_size))
    /\ LET size == SafeBatchSize(batch_size)
           chunk == Chunk(subtitles, ci, size)
       IN /\ doc' = Append(doc, create_batch_request(builder, chunk, languages[li], ci))
          /\ IF li < Len(languages)
             THEN /\ li' = li + 1 /\ UNCHANGED ci
             ELSE IF InRange(ci + size, Len(subtitles), size)
                  THEN /\ li' = 1 /\ ci' = ci + size
                  ELSE /\ li' = li + 1 /\ ci' = 0
    /\ UNCHANGED <<builder, subtitles, languages, batch_size, bpc>>
    /\ UNCHANGED <<waitVars, parseVars, applyVars, jsonVars, runVars, signalVars, decodeVars, loopVars>>

\* One pass of the inner loop: the request of language li, chunk ci is
\* written; the loops then move to the next chunk or the next language.
BuildWrite ==
    /\ bpc = "write" /\ li <= Len(languages)
    /\ SafeBatchSize(batch_size) # 0
    /\ InRange(ci, Len(subtitles), SafeBatchSize(batch_size))
    /\ LET size == SafeBatchSize(batch_size)
           chunk == Chunk(subtitles, ci, size)
       IN /\ doc' = Append(doc, create_batch_request(builder, chunk, languages[li], ci))
          /\ IF InRange(ci + size, Len(subtitles), size)
             THEN /\ ci' = ci + size /\ UNCHANGED li
             ELSE /\ ci' = 0 /\ li' = li + 1
    /\ UNCHANGED <<builder, subtitles, languages, batch_size, bpc>>
    /\ UNCHANGED <<waitVars, parseVars, applyVars, jsonVars, runVars, signalVars, decodeVars, loopVars>>

\* The inner loop of a language has nothing to iterate over.
BuildRangeEmpty ==
    /\ bpc = "write" /\ li <= Len(languages)
    /\ SafeBatchSize(batch_size) # 0
    /\ ci = 0
    /\ ~InRange(0, Len(subtitles), SafeBatchSize(batch_size))
    /\ li' = li + 1
    /\ UNCHANGED <<builder, subtitles, languages, batch_size, doc, ci, bpc>>
    /\ UNCHANGED <<waitVars, parseVars, applyVars, jsonVars, runVars, signalVars, decodeVars, loopVars>>

\* The outer loop ends: the file is closed and build returns its path.
BuildClose ==
    /\ bpc = "write" /\ li > Len(languages)
    /\ bpc' = "done"
    /\ UNCHANGED <<builder, subtitles, languages, batch_size, doc, li, ci>>
    /\ UNCHANGED <<waitVars, parseVars, applyVars, jsonVars, runVars, signalVars, decodeVars, loopVars>>

InitBuild ==
    /\ builder \in Builders
    /\ \E n \in NValues : subtitles = [k \in 1 .. n |-> TextOf(k - 1)]
    /\ languages \in LangLists
    /\ batch_size \in BatchSizes
    /\ builder = "gemini" => batch_size = MaxChunk
    /\ doc = <<>> /\ li = 0 /\ ci = 0 /\ bpc = "start"
    /\ client = "none" /\ jobState = "none" /\ jobError = "" /\ jobUsage = "absent"
    /\ jobDest = FALSE /\ observed = "none" /\ wpc = "idle" /\ outcome = NoOutcome
    /\ failures = 0
    /\ parser = "none" /\ batch_output = <<>> /\ lineNo = 0 /\ results = <<>>
    /\ ppc = "idle"
    /\ applier = "none" /\ original = <<>> /\ translated_lines = <<>> /\ item_no = 0
    /\ work = <<>> /\ translation_map = {} /\ output_srt = NoFile /\ apc = "idle"
    /\ jparser = "none" /\ llm_content = NoText /\ jpc = "idle" /\ jresult = <<>>
    /\ service = <<>> /\ notify_mode = <<>> /\ deployment = "local" /\ files = <<>>
    /\ rpc = <<>> /\ seen = <<>> /\ uploaded = <<>> /\ uploads = <<>> /\ jobs = <<>>
    /\ nlang = <<>> /\ outputs = <<>> /\ calls = <<>> /\ err = <<>>
    /\ sig = 0 /\ rsig = 0 /\ osig = <<>> /\ orsig = <<>> /\ tpc = <<>>
    /\ status = <<>>
    /\ dside = "none" /\ dfile = <<>> /\ dtry = 0 /\ dpc = "idle" /\ benc = "none"
    /\ aenc = "none"
    /\ lservice = "none" /\ lrequested = <<>> /\ ldoc = <<>> /\ lresults = <<>>
    /\ lpos = 0 /\ lwritten = {} /\ lreported = <<>> /\ lpc = "idle"

NextBuild == BuildOpen \/ BuildRangeError \/ BuildWrite \/ BuildRangeEmpty \/ BuildClose

SpecBuild == InitBuild /\ [][NextBuild]_vars

\* ---- how the parsers read a correlation key back ----

NoKey == [ok |-> FALSE, language |-> <<>>, start_index |-> <<>>]

\* BatchResultParser (both copies): lang, _ = record["custom_id"].rsplit(":", 1);
\* a key without ":" fails to unpack (ValueError)
OpenAISplitKey(key) ==
    IF Len(rsplit(key)) # 2 THEN NoKey
    ELSE [ok |-> TRUE, language |-> rsplit(key)[1], start_index |-> rsplit(key)[2]]

\* GeminiBatchResultParser: key.split(':', 1), then int(chunk_index)
GeminiSplitKey(key) ==
    IF ColonPositions(key) = {} THEN NoKey
    ELSE IF ~int(split(key)[2]).ok THEN NoKey
    ELSE [ok |-> TRUE, language |-> split(key)[1], start_index |-> split(key)[2]]

\* the parser that reads the results of a builder's requests
SplitKey(b, key) == IF b = "gemini" THEN GeminiSplitKey(key) ELSE OpenAISplitKey(key)

\* ---- measures of a finished document ----

Ceil(n, d) == (n + d - 1) \div d

Clamp(x, lo, hi) == Max(lo, Min(x, hi))

Range(f) == {f[x] : x \in DOMAIN f}

\* the language a key names, read as spec 4.4 reads it (last delimiter)
KeyLanguage(key) == rsplit(key)[1]

\* the absolute index of the first payload entry of a request
StartOf(r) == r.payload[1].index

RequestsOf(language) == {p \in 1 .. Len(doc) : KeyLanguage(doc[p].key) = language}

\* the payload entries <<request, position>> of a set of requests
EntriesOf(ps) == UNION {{<<p, j>> : j \in 1 .. Len(doc[p].payload)} : p \in ps}

NoRepeat(list) == \A a, b \in 1 .. Len(list) : a # b => list[a] # list[b]

\* the request at chunk c of language-list entry e, cpl chunks per entry
At(e, c, cpl) == doc[(e - 1) * cpl + c]

BuildEnded == bpc \in {"done", "raised"}

\* C5: the key written for (language, start index) is split by the parser of
\* the same provider back into that language and that start index, also for
\* a language that contains ":".
C5_KeyRoundTrip ==
    [][(bpc = "write" /\ Len(doc') = Len(doc) + 1) =>
          LET back == SplitKey(builder, doc'[Len(doc')].key)
          IN /\ back.ok
             /\ back.language = languages[li]
             /\ int(back.start_index) = [ok |-> TRUE, value |-> ci]]_vars

\* C6: the keys of the requests of one document are pairwise distinct, for
\* every language list and record count.
C6_KeysDistinct ==
    bpc = "done" => \A p, q \in 1 .. Len(doc) : p # q => doc[p].key # doc[q].key

\* C6 as amended: the keys are pairwise distinct when no language occurs
\* twice in the list.
C6_KeysDistinctNoRepeat ==
    (bpc = "done" /\ NoRepeat(languages)) =>
        \A p, q \in 1 .. Len(doc) : p # q => doc[p].key # doc[q].key

C6_Witness ==
    /\ bpc = "done" /\ NoRepeat(languages) /\ Len(languages) = 2
    /\ \E e \in 1 .. 2 : languages[e] = <<"z", ":", "h">>
    /\ Len(doc) >= 4

\* C7: build emits exactly ceil(N / clamp(chunk_size, 1, 60)) requests per
\* language, whatever the chunk size, their start indices strictly
\* increasing in document order and their chunks not overlapping.
C7_ChunkCount ==
    BuildEnded =>
      \A language \in Range(languages) :
        /\ Cardinality(RequestsOf(language))
             = Ceil(Len(subtitles), Clamp(batch_size, 1, MaxChunk))
        /\ \A p, q \in RequestsOf(language) :
             p < q => \A j \in 1 .. Len(doc[p].payload) :
                        doc[p].payload[j].index < StartOf(doc[q])

\* C7 as amended: for a chunk size of at least 1, build emits exactly
\* ceil(N / min(chunk_size, 60)) requests for each entry of the language
\* list, with strictly increasing start indices and chunks that do not
\* overlap.
C7_ChunkCountPositive ==
    (bpc = "done" /\ batch_size >= 1) =>
      LET cpl == Ceil(Len(subtitles), Min(batch_size, MaxChunk))
      IN /\ Len(doc) = Len(languages) * cpl
         /\ \A e \in 1 .. Len(languages) : \A c \in 1 .. cpl :
              /\ KeyLanguage(At(e, c, cpl).key) = languages[e]
              /\ c < cpl =>
                   /\ StartOf(At(e, c, cpl)) < StartOf(At(e, c + 1, cpl))
                   /\ \A j \in 1 .. Len(At(e, c, cpl).payload) :
                        At(e, c, cpl).payload[j].index < StartOf(At(e, c + 1, cpl))

C7_Witness ==
    /\ bpc = "done" /\ batch_size = DefaultBatchSize
    /\ Len(subtitles) = 2 * MaxChunk + 1 /\ Len(languages) = 2
    /\ Len(doc) = 6

\* C8: for each language, the payloads of its requests contain every record
\* position 0..N-1 exactly once, with that record's text, the index being
\* the absolute position.
C8_PayloadCoversAll ==
    BuildEnded =>
      \A language \in Range(languages) : \A i \in 0 .. Len(subtitles) - 1 :
        LET hits == {pj \in EntriesOf(RequestsOf(language)) :
                       doc[pj[1]].payload[pj[2]].index = i}
        IN /\ Cardinality(hits) = 1
           /\ \A pj \in hits : doc[pj[1]].payload[pj[2]].content = subtitles[i + 1]

\* C8 as amended: for a chunk size of at least 1 and each entry of the
\* language list, the payloads of the requests written for that entry
\* contain every position 0..N-1 exactly once, with that record's text.
C8_PayloadCoversAllPositive ==
    (bpc = "done" /\ batch_size >= 1) =>
      LET cpl == Ceil(Len(subtitles), Min(batch_size, MaxChunk))
      IN /\ Len(doc) = Len(languages) * cpl
         /\ \A e \in 1 .. Len(languages) : \A i \in 0 .. Len(subtitles) - 1 :
              LET hits == {pj \in EntriesOf((e - 1) * cpl + 1 .. e * cpl) :
                             doc[pj[1]].payload[pj[2]].index = i}
              IN /\ Cardinality(hits) = 1
                 /\ \A pj \in hits :
                      /\ KeyLanguage(doc[pj[1]].key) = languages[e]
                      /\ doc[pj[1]].payload[pj[2]].content = subtitles[i + 1]

C8_Witness ==
    /\ bpc = "done" /\ batch_size = 2 /\ Len(subtitles) = 3 /\ Len(languages) = 2
    /\ Len(doc) = 4
    /\ doc[2].payload = <<[index |-> 2, content |-> TextOf(2)]>>

\* C9: no request carries more than 60 payload entries, whatever chunk size
\* was passed, the default of 100 included.
C9_PayloadAtMostMaxChunk ==
    \A p \in 1 .. Len(doc) : Len(doc[p].payload) <= MaxChunk

C9_Witness ==
    /\ batch_size = DefaultBatchSize /\ Len(subtitles) > MaxChunk
    /\ Len(doc) >= 2
    /\ Len(doc[1].payload) = MaxChunk

\* C10: the document is written language-major: at every moment it holds the
\* requests of the language-list entries in list order, and inside an entry
\* in increasing start-index order; a finished document holds them all.
C10_LanguageMajor ==
    IF Min(batch_size, MaxChunk) < 1 THEN doc = <<>>
    ELSE
      LET size == Min(batch_size, MaxChunk)
          cpl  == Ceil(Len(subtitles), size)
      IN /\ \A p \in 1 .. Len(doc) :
              /\ (p - 1) \div cpl + 1 <= Len(languages)
              /\ doc[p].key = languages[(p - 1) \div cpl + 1] \o <<":">>
                                \o Str(((p - 1) % cpl) * size)
              /\ StartOf(doc[p]) = ((p - 1) % cpl) * size
         /\ bpc = "done" => Len(doc) = Len(languages) * cpl

C10_Witness ==
    /\ bpc = "done" /\ Len(languages) = 2 /\ languages[1] # languages[2]
    /\ Len(doc) = 4
    /\ KeyLanguage(doc[2].key) = languages[1] /\ KeyLanguage(doc[3].key) = languages[2]

(***************************************************************************)
(* Result parsers: BatchResultParser.split_by_language (two copies) and     *)
(* GeminiBatchResultParser.split_by_language                               *)
(*                                                                         *)
(* A line of the result document is described by what json.loads makes of  *)
(* it: json is "blank", "invalid" (not JSON), "nonobject" (JSON, but a      *)
(* list, number or string) or "object"; for an object, error says whether  *)
(* it carries an error marker, key describes the correlation key field     *)
(* (custom_id for OpenAI, key for Gemini) and response the response field. *)
(* The text payload is described by its form and the array it spells:      *)
(*   bare     [{"index": 0, "content": "x"}]                               *)
(*   fenced   ```json\n[...]\n```                                          *)
(*   prose    Here is the translation: [...] Done.                         *)
(*   object   {"translations": [...]}                                      *)
(*   garbage  I cannot translate this.                                     *)
(*   empty    the empty string                                             *)
(***************************************************************************)

Parsers == {"gemini", "openai", "openai_legacy"}

\* longest result document that is enumerated
MaxDocLen == 2

Pair(i, c) == [kind |-> "pair", index |-> i, content |-> c]

Bare(items) == [form |-> "bare", items |-> items]

Obj(error, key, response, text) ==
    [json |-> "object", error |-> error, key |-> key, response |-> response, text |-> text]

StrKey(s) == [kind |-> "string", s |-> s]

NotObj(json) ==
    [json |-> json, error |-> FALSE, key |-> [kind |-> "absent", s |-> <<>>],
     response |-> "absent", text |-> NoText]

KeyFr0 == StrKey(<<"f", "r", ":", "0">>)

XY == <<Pair(0, "x"), Pair(1, "y")>>

\* records the providers deliver for well-formed responses
GoodLines ==
    { Obj(FALSE, KeyFr0, "text", Bare(XY)),
      Obj(FALSE, StrKey(<<"d", "e", ":", "0">>), "text", Bare(<<Pair(0, "u")>>)),
      Obj(FALSE, StrKey(<<"f", "r", ":", "2">>), "text", Bare(<<Pair(3, "w"), Pair(2, "z")>>)),
      Obj(FALSE, StrKey(<<"z", ":", "h", ":", "0">>), "text", Bare(<<Pair(0, "v")>>)) }

\* records that cannot be correlated or parsed
BadLines ==
    { NotObj("invalid"),
      NotObj("nonobject"),
      Obj(TRUE, KeyFr0, "absent", NoText),
      Obj(FALSE, [kind |-> "absent", s |-> <<>>], "text", Bare(XY)),
      Obj(FALSE, [kind |-> "number", s |-> <<>>], "text", Bare(XY)),
      Obj(FALSE, StrKey(<<"f", "r">>), "text", Bare(XY)),
      Obj(FALSE, KeyFr0, "absent", NoText),
      Obj(FALSE, KeyFr0, "null", NoText),
      Obj(FALSE, KeyFr0, "other", NoText),
      Obj(FALSE, KeyFr0, "text", [form |-> "empty", items |-> <<>>]),
      Obj(FALSE, KeyFr0, "text", [form |-> "garbage", items |-> <<>>]) }

\* records whose payload needs the lenient extraction, or whose array is
\* not what the instruction asked for
OddLines ==
    { NotObj("blank"),
      Obj(FALSE, KeyFr0, "text", [form |-> "fenced", items |-> XY]),
      Obj(FALSE, KeyFr0, "text", [form |-> "prose", items |-> XY]),
      Obj(FALSE, KeyFr0, "text", [form |-> "object", items |-> XY]),
      Obj(FALSE, StrKey(<<"f", "r", ":", "x">>), "text", Bare(XY)),
      Obj(FALSE, KeyFr0, "text", Bare(<<>>)),
      Obj(FALSE, KeyFr0, "text",
          Bare(<<Pair(1, "y"), [kind |-> "noindex", index |-> 0, content |-> "q"]>>)),
      Obj(FALSE, KeyFr0, "text",
          Bare(<<Pair(0, "x"), [kind |-> "nondict", index |-> 0, content |-> ""]>>)) }

Lines == GoodLines \cup BadLines \cup OddLines

Documents == UNION {[1 .. n -> Lines] : n \in 0 .. MaxDocLen}

IsDict(item) == item.kind # "nondict"

\* re.search(r"(\[\s*\{.*?\}\s*\])", ...) finds the array: it must open with
\* "[{" and close with "}]"
RegexFindsArray(items) ==
    Len(items) > 0 /\ IsDict(items[1]) /\ IsDict(items[Len(items)])

ParseFailed == [ok |-> FALSE, items |-> <<>>]

Parsed(items) == [ok |-> TRUE, items |-> items]

\* safe_json_parse of the OpenAI parsers: fences stripped, direct parse,
\* then the regex search
OpenAISafeJsonParse(text) ==
    CASE text.form = "empty"             -> ParseFailed
      [] text.form \in {"bare", "fenced"} -> Parsed(text.items)
      [] text.form \in {"prose", "object", "fenced_object"} ->
            IF RegexFindsArray(text.items) THEN Parsed(text.items) ELSE ParseFailed
      [] OTHER                           -> ParseFailed

\* GeminiBatchResultParser.safe_json_parse: direct parse (a value that is
\* not a list raises at once), fenced block, then the span from the first
\* "[" to the last "]"
GeminiSafeJsonParse(text) ==
    CASE text.form = "empty"                      -> ParseFailed
      [] text.form \in {"bare", "fenced", "prose", "fenced_object"} -> Parsed(text.items)
      [] text.form = "object"                     -> ParseFailed
      [] OTHER                                    -> ParseFailed

\* x.get('index', 0), the sort key of the Gemini parser
SortKey(item) == IF item.kind \in {"noindex", "nondict"} THEN 0 ELSE item.index

\* list.sort(key=...): stable insertion of each item after the items whose
\* key is not greater
RECURSIVE SortByIndex(_)
SortByIndex(items) ==
    IF Len(items) <= 1 THEN items
    ELSE LET last == items[Len(items)]
             head == SortByIndex(SubSeq(items, 1, Len(items) - 1))
             n    == Cardinality({p \in 1 .. Len(head) : SortKey(head[p]) <= SortKey(last)})
         IN SubSeq(head, 1, n) \o <<last>> \o SubSeq(head, n + 1, Len(head))

Skip == [kind |-> "skip", language |-> <<>>, items |-> <<>>]

Raise == [kind |-> "raise", language |-> <<>>, items |-> <<>>]

Extend(language, items) == [kind |-> "extend", language |-> language, items |-> items]

\* One pass of the loop of openai/batch_result_parser.py.
OpenAILine(line) ==
    CASE line.json = "blank"     -> Skip
      [] line.json = "invalid"   -> Skip     \* json.JSONDecodeError is caught
      [] line.json = "nonobject" -> Raise    \* record.get: AttributeError
      [] OTHER ->
           IF line.error THEN Skip
           ELSE IF line.key.kind = "absent" THEN Skip      \* KeyError is caught
           ELSE IF line.key.kind = "number" THEN Raise     \* .rsplit: AttributeError
           ELSE IF ~OpenAISplitKey(line.key.s).ok THEN Skip  \* ValueError is caught
           ELSE IF line.response # "text" THEN Skip        \* KeyError, TypeError caught
           ELSE IF ~OpenAISafeJsonParse(line.text).ok THEN Skip
           ELSE Extend(OpenAISplitKey(line.key.s).language,
                       OpenAISafeJsonParse(line.text).items)

\* One pass of the loop of services/batch_result_parser.py, which guards
\* only safe_json_parse.
OpenAILegacyLine(line) ==
    CASE line.json = "blank"     -> Skip
      [] line.json = "invalid"   -> Raise    \* json.loads is not guarded
      [] line.json = "nonobject" -> Raise
      [] OTHER ->
           IF line.error THEN Skip
           ELSE IF line.key.kind # "string" THEN Raise
           ELSE IF ~OpenAISplitKey(line.key.s).ok THEN Raise
           ELSE IF line.response # "text" THEN Raise
           ELSE IF ~OpenAISafeJsonParse(line.text).ok THEN Skip
           ELSE Extend(OpenAISplitKey(line.key.s).language,
                       OpenAISafeJsonParse(line.text).items)

\* One pass of the loop of the Gemini parser: the whole body sits in
\* try/except Exception.  str() of a response without text is the repr of a
\* dict, which no attempt of safe_json_parse reads.
GeminiLine(line) ==
    CASE line.json = "blank"     -> Skip
      [] line.json = "invalid"   -> Skip
      [] line.json = "nonobject" -> Skip
      [] OTHER ->
           IF line.response \in {"absent", "null"} THEN Skip
           ELSE IF line.key.kind # "string" THEN Skip
           ELSE IF ~GeminiSplitKey(line.key.s).ok THEN Skip
           ELSE IF line.response # "text" THEN Skip
           ELSE IF ~GeminiSafeJsonParse(line.text).ok THEN Skip
           ELSE IF \E p \in 1 .. Len(line.text.items) : ~IsDict(line.text.items[p]) THEN Skip
           ELSE Extend(GeminiSplitKey(line.key.s).language,
                       SortByIndex(GeminiSafeJsonParse(line.text).items))

LineEffect(ps, line) ==
    CASE ps = "gemini" -> GeminiLine(line)
      [] ps = "openai" -> OpenAILine(line)
      [] OTHER         -> OpenAILegacyLine(line)

\* results is a dict in insertion order: a sequence of groups
GroupOf(res, language) == {g \in 1 .. Len(res) : res[g].language = language}

\* results[language].extend(items)
ExtendResults(res, language, items) ==
    IF GroupOf(res, language) = {}
    THEN Append(res, [language |-> language, items |-> items])
    ELSE [g \in 1 .. Len(res) |->
            IF res[g].language = language
            THEN [language |-> language, items |-> res[g].items \o items]
            ELSE res[g]]

NextLine == batch_output[lineNo + 1]

\* The loop passes over a line that contributes nothing.
ParseSkip ==
    /\ ppc = "loop" /\ lineNo < Len(batch_output)
    /\ LineEffect(parser, NextLine).kind = "skip"
    /\ lineNo' = lineNo + 1
    /\ UNCHANGED <<parser, batch_output, results, ppc>>
    /\ UNCHANGED <<waitVars, buildVars, applyVars, jsonVars, runVars, signalVars, decodeVars, loopVars>>

\* The loop files the items of a record under its language.
ParseExtend ==
    /\ ppc = "loop" /\ lineNo < Len(batch_output)
    /\ LineEffect(parser, NextLine).kind = "extend"
    /\ results' = ExtendResults(results, LineEffect(parser, NextLine).language,
                                LineEffect(parser, NextLine).items)
    /\ lineNo' = lineNo + 1
    /\ UNCHANGED <<parser, batch_output, ppc>>
    /\ UNCHANGED <<waitVars, buildVars, applyVars, jsonVars, runVars, signalVars, decodeVars, loopVars>>

\* An exception leaves split_by_language: no mapping is returned.
ParseRaise ==
    /\ ppc = "loop" /\ lineNo < Len(batch_output)
    /\ LineEffect(parser, NextLine).kind = "raise"
    /\ ppc' = "raised"
    /\ results' = <<>>
    /\ UNCHANGED <<parser, batch_output, lineNo>>
    /\ UNCHANGED <<waitVars, buildVars, applyVars, jsonVars, runVars, signalVars, decodeVars, loopVars>>

\* The loop is over: the mapping is returned.
ParseReturn ==
    /\ ppc = "loop" /\ lineNo = Len(batch_output)
    /\ ppc' = "returned"
    /\ UNCHANGED <<parser, batch_output, lineNo, results>>
    /\ UNCHANGED <<waitVars, buildVars, applyVars, jsonVars, runVars, signalVars, decodeVars, loopVars>>

InitParse ==
    /\ parser \in Parsers
    /\ batch_output \in Documents
    /\ lineNo = 0 /\ results = <<>> /\ ppc = "loop"
    /\ client = "none" /\ jobState = "none" /\ jobError = "" /\ jobUsage = "absent"
    /\ jobDest = FALSE /\ observed = "none" /\ wpc = "idle" /\ outcome = NoOutcome
    /\ failures = 0
    /\ builder = "none" /\ subtitles = <<>> /\ languages = <<>> /\ batch_size = 0
    /\ doc = <<>> /\ li = 0 /\ ci = 0 /\ bpc = "idle"
    /\ applier = "none" /\ original = <<>> /\ translated_lines = <<>> /\ item_no = 0
    /\ work = <<>> /\ translation_map = {} /\ output_srt = NoFile /\ apc = "idle"
    /\ jparser = "none" /\ llm_content = NoText /\ jpc = "idle" /\ jresult = <<>>
    /\ service = <<>> /\ notify_mode = <<>> /\ deployment = "local" /\ files = <<>>
    /\ rpc = <<>> /\ seen = <<>> /\ uploaded = <<>> /\ uploads = <<>> /\ jobs = <<>>
    /\ nlang = <<>> /\ outputs = <<>> /\ calls = <<>> /\ err = <<>>
    /\ sig = 0 /\ rsig = 0 /\ osig = <<>> /\ orsig = <<>> /\ tpc = <<>>
    /\ status = <<>>
    /\ dside = "none" /\ dfile = <<>> /\ dtry = 0 /\ dpc = "idle" /\ benc = "none"
    /\ aenc = "none"
    /\ lservice = "none" /\ lrequested = <<>> /\ ldoc = <<>> /\ lresults = <<>>
    /\ lpos = 0 /\ lwritten = {} /\ lreported = <<>> /\ lpc = "idle"

NextParse == ParseSkip \/ ParseExtend \/ ParseRaise \/ ParseReturn

SpecParse == InitParse /\ [][NextParse]_vars

\* ---- what a document should yield ----

\* a record that can be correlated and parsed as spec 4.4 reads it
WellFormed(line) == line \in GoodLines

\* a record of one of the kinds spec 4.4 says are skipped
Malformed(line) == line \in BadLines

\* the mapping a sequence of well-formed records spells, groups in order of
\* first appearance, items in document order
RECURSIVE MappingOf(_)
MappingOf(lines) ==
    IF Len(lines) = 0 THEN <<>>
    ELSE ExtendResults(MappingOf(SubSeq(lines, 1, Len(lines) - 1)),
                       KeyLanguage(lines[Len(lines)].key.s),
                       lines[Len(lines)].text.items)

\* items as a bag: the lists of a mapping are unordered
ItemBag(items) ==
    [x \in Range(items) |-> Cardinality({p \in 1 .. Len(items) : items[p] = x})]

SameMapping(a, b) ==
    /\ {a[g].language : g \in 1 .. Len(a)} = {b[g].language : g \in 1 .. Len(b)}
    /\ Len(a) = Len(b)
    /\ \A g \in 1 .. Len(a) : \A h \in 1 .. Len(b) :
         a[g].language = b[h].language => ItemBag(a[g].items) = ItemBag(b[h].items)

ParseEnded == ppc \in {"returned", "raised"}

\* C3: split_by_language never raises, whatever the document contains.
C3_NeverRaises == ppc # "raised"

\* C4: for a document of well-formed and malformed records, the returned
\* mapping is the mapping of its well-formed records alone.
C4_MalformedAddNothing ==
    (ParseEnded /\ \A p \in 1 .. Len(batch_output) :
                      WellFormed(batch_output[p]) \/ Malformed(batch_output[p])) =>
      /\ ppc = "returned"
      /\ SameMapping(results, MappingOf(SelectSeq(batch_output, WellFormed)))

(***************************************************************************)
(* Reassembler: BatchResultParser.apply_translations (two copies) and       *)
(* GeminiBatchResultParser.apply_translations                              *)
(*                                                                         *)
(* A decoded record is [start, content]; starts are distinct.  The output  *)
(* file is what srt.compose writes: with its defaults (reindex, strict) it *)
(* sorts the records by start time, leaves out every record whose content  *)
(* is blank, and numbers the rest from 1.                                  *)
(***************************************************************************)

Appliers == {"gemini", "openai", "openai_legacy"}

\* largest record count and longest list of recovered translations
MaxRecords == 2
MaxItems == 2

OrigText == <<"a", "b", "c", "d">>

\* the files srt.parse decodes: records in time order, or in reverse order
Originals ==
    {[i \in 1 .. n |-> [start |-> i, content |-> OrigText[i]]] : n \in 0 .. MaxRecords}
      \cup {[i \in 1 .. n |-> [start |-> n + 1 - i, content |-> OrigText[i]]] :
              n \in 2 .. MaxRecords}

\* elements of a parsed result array: pairs for every index from -1 to N
\* (the empty text included), and elements that lack a field or are no object
ApplyItems ==
    {Pair(i, c) : i \in 0 .. MaxRecords - 1, c \in {"", "x", "y"}}
      \cup {Pair(-1, "x"), Pair(MaxRecords, "x")}
      \cup {[kind |-> "noindex", index |-> 0, content |-> "q"],
            [kind |-> "nocontent", index |-> 0, content |-> ""],
            [kind |-> "nocontent", index |-> MaxRecords, content |-> ""],
            [kind |-> "nondict", index |-> 0, content |-> ""]}

\* The lists apply_translations is called with.  The Gemini parser's
\* split_by_language drops a record whose array holds a non-object (its sort
\* raises), so such elements reach only the OpenAI reassemblers.
TranslatedLists(a) ==
    UNION {[1 .. n -> IF a = "gemini" THEN {x \in ApplyItems : IsDict(x)} ELSE ApplyItems] :
             n \in 0 .. MaxItems}

\* subtitle.content.strip() is empty
Blank(content) == content \in {"", " "}

NotSkipped(sub) == ~Blank(sub.content)

\* sorted(subtitles): by start time, stable
RECURSIVE SortByStart(_)
SortByStart(subs) ==
    IF Len(subs) <= 1 THEN subs
    ELSE LET last == subs[Len(subs)]
             head == SortByStart(SubSeq(subs, 1, Len(subs) - 1))
             n    == Cardinality({p \in 1 .. Len(head) : head[p].start <= last.start})
         IN SubSeq(head, 1, n) \o <<last>> \o SubSeq(head, n + 1, Len(head))

\* srt.compose(subtitles): sort, skip the records without content, reindex
compose(subs) ==
    LET kept == SelectSeq(SortByStart(subs), NotSkipped)
    IN [k \in 1 .. Len(kept) |->
          [index |-> k, start |-> kept[k].start, content |-> kept[k].content]]

\* One pass of the OpenAI loop: idx = item["index"]; if 0 <= idx < len:
\* subtitles[idx].content = item["content"].
OpenAIItem(subs, item) ==
    CASE item.kind = "nondict" -> [raise |-> TRUE, subs |-> subs]   \* TypeError
      [] item.kind = "noindex" -> [raise |-> TRUE, subs |-> subs]   \* KeyError
      [] OTHER ->
           IF 0 <= item.index /\ item.index < Len(subs)
           THEN IF item.kind = "nocontent"
                THEN [raise |-> TRUE, subs |-> subs]                \* KeyError
                ELSE [raise |-> FALSE,
                      subs |-> [subs EXCEPT ![item.index + 1].content = item.content]]
           ELSE [raise |-> FALSE, subs |-> subs]

\* a dict comprehension in which the first element with an index stays
GeminiItemFirstWins(map, item) ==
    IF item.kind = "pair" /\ ~\E p \in map : p[1] = item.index
    THEN map \cup {<<item.index, item.content>>}
    ELSE map

\* One element of the Gemini dict comprehension: a later element replaces an
\* earlier one with the same index; elements lacking a field are left out.
GeminiItem(map, item) ==
    IF item.kind = "pair"
    THEN {p \in map : p[1] # item.index} \cup {<<item.index, item.content>>}
    ELSE map

\* the Gemini loop over the original records
GeminiTranslated(subs, map) ==
    [i \in 1 .. Len(subs) |->
       IF \E p \in map : p[1] = i - 1
       THEN [start |-> subs[i].start,
             content |-> (CHOOSE p \in map : p[1] = i - 1)[2]]
       ELSE subs[i]]

\* the record list handed to srt.compose: translated_subtitles of the Gemini
\* parser, the rewritten subtitles of the OpenAI parsers
Reassembled ==
    IF applier = "gemini" THEN GeminiTranslated(work, translation_map) ELSE work

NextItem == translated_lines[item_no + 1]

\* Gemini: "if not translated_lines: return", before anything is read or
\* written.
ApplyEmpty ==
    /\ apc = "start" /\ applier = "gemini" /\ translated_lines = <<>>
    /\ apc' = "returned"
    /\ UNCHANGED <<applier, original, translated_lines, item_no, work, translation_map,
                   output_srt>>
    /\ UNCHANGED <<waitVars, buildVars, parseVars, jsonVars, runVars, signalVars, decodeVars, loopVars>>

\* The original file is read and decoded.
ApplyRead ==
    /\ apc = "start" /\ ~(applier = "gemini" /\ translated_lines = <<>>)
    /\ work' = original
    /\ apc' = "loop"
    /\ UNCHANGED <<applier, original, translated_lines, item_no, translation_map,
                   output_srt>>
    /\ UNCHANGED <<waitVars, buildVars, parseVars, jsonVars, runVars, signalVars, decodeVars, loopVars>>

\* One element of translated_lines is taken up.
ApplyItem ==
    /\ apc = "loop" /\ item_no < Len(translated_lines)
    /\ IF applier = "gemini"
       THEN /\ translation_map' = GeminiItem(translation_map, NextItem)
            /\ UNCHANGED work
       ELSE /\ ~OpenAIItem(work, NextItem).raise
            /\ work' = OpenAIItem(work, NextItem).subs
            /\ UNCHANGED translation_map
    /\ item_no' = item_no + 1
    /\ UNCHANGED <<applier, original, translated_lines, output_srt, apc>>
    /\ UNCHANGED <<waitVars, buildVars, parseVars, jsonVars, runVars, signalVars, decodeVars, loopVars>>

\* An element makes the OpenAI loop raise: nothing is written.
ApplyRaise ==
    /\ apc = "loop" /\ item_no < Len(translated_lines)
    /\ applier # "gemini"
    /\ OpenAIItem(work, NextItem).raise
    /\ apc' = "raised"
    /\ UNCHANGED <<applier, original, translated_lines, item_no, work, translation_map,
                   output_srt>>
    /\ UNCHANGED <<waitVars, buildVars, parseVars, jsonVars, runVars, signalVars, decodeVars, loopVars>>

\* The loop is over: the records are composed and written to output_srt.
ApplyWrite ==
    /\ apc = "loop" /\ item_no = Len(translated_lines)
    /\ output_srt' =
         [written |-> TRUE,
          records |-> compose(Reassembled)]
    /\ apc' = "returned"
    /\ UNCHANGED <<applier, original, translated_lines, item_no, work, translation_map>>
    /\ UNCHANGED <<waitVars, buildVars, parseVars, jsonVars, runVars, signalVars, decodeVars, loopVars>>

InitApply ==
    /\ applier \in Appliers
    /\ original \in Originals
    /\ translated_lines \in TranslatedLists(applier)
    /\ item_no = 0 /\ work = <<>> /\ translation_map = {} /\ output_srt = NoFile
    /\ apc = "start"
    /\ client = "none" /\ jobState = "none" /\ jobError = "" /\ jobUsage = "absent"
    /\ jobDest = FALSE /\ observed = "none" /\ wpc = "idle" /\ outcome = NoOutcome
    /\ failures = 0
    /\ builder = "none" /\ subtitles = <<>> /\ languages = <<>> /\ batch_size = 0
    /\ doc = <<>> /\ li = 0 /\ ci = 0 /\ bpc = "idle"
    /\ parser = "none" /\ batch_output = <<>> /\ lineNo = 0 /\ results = <<>>
    /\ ppc = "idle"
    /\ jparser = "none" /\ llm_content = NoText /\ jpc = "idle" /\ jresult = <<>>
    /\ service = <<>> /\ notify_mode = <<>> /\ deployment = "local" /\ files = <<>>
    /\ rpc = <<>> /\ seen = <<>> /\ uploaded = <<>> /\ uploads = <<>> /\ jobs = <<>>
    /\ nlang = <<>> /\ outputs = <<>> /\ calls = <<>> /\ err = <<>>
    /\ sig = 0 /\ rsig = 0 /\ osig = <<>> /\ orsig = <<>> /\ tpc = <<>>
    /\ status = <<>>
    /\ dside = "none" /\ dfile = <<>> /\ dtry = 0 /\ dpc = "idle" /\ benc = "none"
    /\ aenc = "none"
    /\ lservice = "none" /\ lrequested = <<>> /\ ldoc = <<>> /\ lresults = <<>>
    /\ lpos = 0 /\ lwritten = {} /\ lreported = <<>> /\ lpc = "idle"

NextApply == ApplyEmpty \/ ApplyRead \/ ApplyItem \/ ApplyRaise \/ ApplyWrite

SpecApply == InitApply /\ [][NextApply]_vars

\* ---- what a reassembly should yield ----

ApplyEnded == apc \in {"returned", "raised"}

AllPairs == \A p \in 1 .. Len(translated_lines) : translated_lines[p].kind = "pair"

\* the recovered translations for the record at 0-based position i
TranslationsFor(i) ==
    {translated_lines[p].content :
       p \in {q \in 1 .. Len(translated_lines) :
                translated_lines[q].kind = "pair" /\ translated_lines[q].index = i}}

\* the output holds the record decoded at position i (1-based), with text c
OutputHas(i, c) ==
    \E k \in 1 .. Len(output_srt.records) :
       /\ output_srt.records[k].start = original[i].start
       /\ output_srt.records[k].content = c

\* C11: whatever the recovered translations are (any indices, any text),
\* apply_translations writes an output file with exactly as many records as
\* the original has.
C11_SameRecordCount ==
    (ApplyEnded /\ AllPairs) =>
      /\ apc = "returned"
      /\ output_srt.written
      /\ Len(output_srt.records) = Len(original)

\* C12: reassembling with an empty list writes an output file whose records
\* have the texts and timings of the original's.
C12_EmptyListCopies ==
    (ApplyEnded /\ translated_lines = <<>>) =>
      /\ apc = "returned"
      /\ output_srt.written
      /\ Len(output_srt.records) = Len(original)
      /\ \A i \in 1 .. Len(original) : OutputHas(i, original[i].content)

\* C13: when the recovered translations cover every index 0..N-1, the output
\* has N records and each record carries a recovered translation for its
\* index, none its original text.
C13_FullCoverReplacesAll ==
    (ApplyEnded /\ AllPairs
       /\ \A i \in 0 .. Len(original) - 1 : TranslationsFor(i) # {}) =>
      /\ apc = "returned"
      /\ output_srt.written
      /\ Len(output_srt.records) = Len(original)
      /\ \A i \in 1 .. Len(original) :
           /\ \E c \in TranslationsFor(i - 1) : OutputHas(i, c)
           /\ ~OutputHas(i, original[i].content)

\* C14: an element that lacks index or content is dropped on its own: the
\* reassembly does not raise, and the output is the one the other elements
\* give (a record with recovered translations carries one of them, a record
\* without keeps its text).
C14_IncompleteElementDropped ==
    (/\ ApplyEnded
     /\ \A p \in 1 .. Len(translated_lines) :
          translated_lines[p].kind \in {"pair", "noindex", "nocontent"}
     /\ \E q \in 1 .. Len(translated_lines) : translated_lines[q].kind # "pair"
     /\ \A r \in 1 .. Len(translated_lines) :
          translated_lines[r].kind = "pair" => ~Blank(translated_lines[r].content)) =>
      /\ apc = "returned"
      /\ output_srt.written
      /\ \A i \in 1 .. Len(original) :
           IF TranslationsFor(i - 1) # {}
           THEN \E c \in TranslationsFor(i - 1) : OutputHas(i, c)
           ELSE OutputHas(i, original[i].content)

(***************************************************************************)
(* Lenient array extraction: safe_json_parse of the OpenAI parsers (two     *)
(* copies) and GeminiBatchResultParser.safe_json_parse                     *)
(*                                                                         *)
(* Besides the forms above a payload text may be                           *)
(*   fenced_object  ```json\n{"translations": [...]}\n```                  *)
(*   scalar         "done"  (valid JSON, neither array nor object)         *)
(***************************************************************************)

\* longest array a payload text spells
MaxArray == 2

ArrayItems == {Pair(0, "x"), Pair(1, "y"), [kind |-> "nondict", index |-> 0, content |-> ""]}

Arrays == UNION {[1 .. n -> ArrayItems] : n \in 0 .. MaxArray}

Texts ==
    {[form |-> f, items |-> a] :
       f \in {"bare", "fenced", "prose", "object", "fenced_object"}, a \in Arrays}
      \cup {[form |-> f, items |-> <<>>] : f \in {"empty", "garbage", "scalar"}}

\* json.loads of a text: "list", "other" (valid JSON, not a list) or
\* "invalid" (json.JSONDecodeError)
loads(form) ==
    CASE form = "bare"                -> "list"
      [] form \in {"object", "scalar"} -> "other"
      [] OTHER                        -> "invalid"

\* re.sub(r"^```json|```$", "", content, flags=re.MULTILINE).strip()
StripFences(form) ==
    CASE form = "fenced"        -> "bare"
      [] form = "fenced_object" -> "object"
      [] OTHER                  -> form

\* content.startswith('```json') and content.endswith('```')
IsFenced(form) == form \in {"fenced", "fenced_object"}

\* content.find('[') and content.rfind(']') delimit a span
HasBracketSpan(form) == form \in {"bare", "fenced", "prose", "object", "fenced_object"}

\* "if not content: raise ValueError"; otherwise the text is stripped (the
\* OpenAI parsers also remove the fences here) and the direct parse is next.
JsonEnter ==
    /\ jpc = "enter"
    /\ jpc' = IF llm_content.form = "empty" THEN "raised" ELSE "direct"
    /\ UNCHANGED <<jparser, llm_content, jresult>>
    /\ UNCHANGED <<waitVars, buildVars, parseVars, applyVars, runVars, signalVars, decodeVars, loopVars>>

\* The direct parse.  Gemini: a list is returned, any other JSON value
\* raises ValueError("Expected JSON array"), which the except clause for
\* json.JSONDecodeError does not catch.  OpenAI: a list is returned, anything
\* else goes on to the regex search.
JsonDirect ==
    /\ jpc = "direct"
    /\ IF jparser = "gemini"
       THEN CASE loads(llm_content.form) = "list" ->
                   jpc' = "returned" /\ jresult' = llm_content.items
              [] loads(llm_content.form) = "other" ->
                   jpc' = "raised" /\ UNCHANGED jresult
              [] OTHER ->
                   jpc' = "fence" /\ UNCHANGED jresult
       ELSE IF loads(StripFences(llm_content.form)) = "list"
            THEN jpc' = "returned" /\ jresult' = llm_content.items
            ELSE jpc' = "span" /\ UNCHANGED jresult
    /\ UNCHANGED <<jparser, llm_content>>
    /\ UNCHANGED <<waitVars, buildVars, parseVars, applyVars, runVars, signalVars, decodeVars, loopVars>>

\* Gemini: the text between the fences is parsed; a list is returned,
\* anything else goes on to the bracket span.
JsonFence ==
    /\ jpc = "fence" /\ jparser = "gemini"
    /\ IF IsFenced(llm_content.form) /\ loads(StripFences(llm_content.form)) = "list"
       THEN jpc' = "returned" /\ jresult' = llm_content.items
       ELSE jpc' = "span" /\ UNCHANGED jresult
    /\ UNCHANGED <<jparser, llm_content>>
    /\ UNCHANGED <<waitVars, buildVars, parseVars, applyVars, runVars, signalVars, decodeVars, loopVars>>

\* The last attempt.  Gemini parses the span from the first "[" to the last
\* "]"; OpenAI parses what the regex for "[{ ... }]" finds.
JsonSpan ==
    /\ jpc = "span"
    /\ IF /\ HasBracketSpan(llm_content.form)
          /\ jparser # "gemini" => RegexFindsArray(llm_content.items)
       THEN jpc' = "returned" /\ jresult' = llm_content.items
       ELSE jpc' = "raised" /\ UNCHANGED jresult
    /\ UNCHANGED <<jparser, llm_content>>
    /\ UNCHANGED <<waitVars, buildVars, parseVars, applyVars, runVars, signalVars, decodeVars, loopVars>>

InitJson ==
    /\ jparser \in Parsers
    /\ llm_content \in Texts
    /\ jpc = "enter" /\ jresult = <<>>
    /\ client = "none" /\ jobState = "none" /\ jobError = "" /\ jobUsage = "absent"
    /\ jobDest = FALSE /\ observed = "none" /\ wpc = "idle" /\ outcome = NoOutcome
    /\ failures = 0
    /\ builder = "none" /\ subtitles = <<>> /\ languages = <<>> /\ batch_size = 0
    /\ doc = <<>> /\ li = 0 /\ ci = 0 /\ bpc = "idle"
    /\ parser = "none" /\ batch_output = <<>> /\ lineNo = 0 /\ results = <<>>
    /\ ppc = "idle"
    /\ applier = "none" /\ original = <<>> /\ translated_lines = <<>> /\ item_no = 0
    /\ work = <<>> /\ translation_map = {} /\ output_srt = NoFile /\ apc = "idle"
    /\ service = <<>> /\ notify_mode = <<>> /\ deployment = "local" /\ files = <<>>
    /\ rpc = <<>> /\ seen = <<>> /\ uploaded = <<>> /\ uploads = <<>> /\ jobs = <<>>
    /\ nlang = <<>> /\ outputs = <<>> /\ calls = <<>> /\ err = <<>>
    /\ sig = 0 /\ rsig = 0 /\ osig = <<>> /\ orsig = <<>> /\ tpc = <<>>
    /\ status = <<>>
    /\ dside = "none" /\ dfile = <<>> /\ dtry = 0 /\ dpc = "idle" /\ benc = "none"
    /\ aenc = "none"
    /\ lservice = "none" /\ lrequested = <<>> /\ ldoc = <<>> /\ lresults = <<>>
    /\ lpos = 0 /\ lwritten = {} /\ lreported = <<>> /\ lpc = "idle"

NextJson == JsonEnter \/ JsonDirect \/ JsonFence \/ JsonSpan

SpecJson == InitJson /\ [][NextJson]_vars

\* ---- the three extractions the text offers ----

\* the whole text is a JSON array
WholeTextYields(text) == text.form = "bare"

\* the text without a leading and trailing code fence is a JSON array
FenceStrippedYields(text) == text.form \in {"bare", "fenced"}

\* the bracketed span of the text is a JSON array
BracketSpanYields(text) ==
    text.form \in {"bare", "fenced", "prose", "object", "fenced_object"}

\* C15: safe_json_parse returns the array of the first of the three
\* extractions (whole text, fence-stripped text, bracketed span) that yields
\* one, and fails only when none does; a whole text that is valid JSON but
\* no array goes on to the later attempts.
C15_ThreeAttempts ==
    jpc \in {"returned", "raised"} =>
      IF \/ WholeTextYields(llm_content)
         \/ FenceStrippedYields(llm_content)
         \/ BracketSpanYields(llm_content)
      THEN jpc = "returned" /\ jresult = llm_content.items
      ELSE jpc = "raised"

\* the step-by-step extraction gives what split_by_language is handed
JsonStepsAgree ==
    jpc \in {"returned", "raised"} =>
      LET whole == IF jparser = "gemini" THEN GeminiSafeJsonParse(llm_content)
                   ELSE OpenAISafeJsonParse(llm_content)
      IN /\ whole.ok <=> jpc = "returned"
         /\ whole.ok => whole.items = jresult

(***************************************************************************)
(* Pipeline runs: translate_and_notify of the three services               *)
(*                                                                         *)
(* Two runs for two different input files are in progress.  The services   *)
(* of services/openai and services/gemini are coroutines on one event loop: *)
(* a run gives way to the other only where it really suspends (a request   *)
(* of the async OpenAI client, asyncio.sleep).  The service of             *)
(* services/openai_batch_translation_service.py is a plain function, run   *)
(* on a thread of its own, and gives way anywhere.                         *)
(***************************************************************************)

Services == {"gemini", "openai", "openai_legacy"}

Runs == {1, 2}

\* largest number of languages a result document is split into
MaxResultLangs == 2

\* cap on the uploads and on the job creations of one run
MaxCreations == 2

\* the request document of a run: jsonl_path
JsonlName(svc, r) ==
    CASE svc = "openai"        -> "input_batch.jsonl"
      [] svc = "openai_legacy" -> "openai_multilang_batch.jsonl"
      [] OTHER                 -> IF r = 1 THEN "one_gemini_batch.jsonl"
                                  ELSE "two_gemini_batch.jsonl"

JsonlNames == {JsonlName(svc, r) : svc \in Services, r \in Runs}

\* notify_mode is a parameter of the plain service only; the async OpenAI
\* service always sends one bundle
NotifyModes(svc) == IF svc = "openai_legacy" THEN {"per_language", "bundle"} ELSE {"bundle"}

Async(svc) == svc # "openai_legacy"

\* positions at which a coroutine is suspended: the OpenAI client's requests
\* (upload, create, retrieve, download) and asyncio.sleep; the Gemini
\* client's calls block, only its sleep suspends
YieldPoints(svc) ==
    CASE svc = "openai" -> {"uploaded", "created", "polling", "waited"}
      [] svc = "gemini" -> {"polling"}
      [] OTHER          -> {}

Suspended(q) == rpc[q] \in {"start", "returned", "raised"} \cup YieldPoints(service[q])

\* the event loop runs one coroutine at a time
MayRun(r) ==
    \A q \in Runs \ {r} : (Async(service[r]) /\ Async(service[q])) => Suspended(q)

\* the run after a status query returned a terminal state other than
\* success, carried on from the upload
ResubmitAfterFailedJob(svc) == "built"

\* the run after a status query returned a terminal state other than
\* success: the Gemini client raises, the OpenAI clients sleep and poll again
AfterFailedJob(svc) == IF svc = "gemini" THEN "raised" ELSE "polling"

\* the step a run is about to take, as the error it raises when it fails
FailureAt(pos) ==
    CASE pos = "start"      -> "decode"
      [] pos = "built"      -> "upload"
      [] pos = "uploaded"   -> "create"
      [] pos = "created"    -> "poll"
      [] pos = "polling"    -> "poll"
      [] pos = "waited"     -> "download"
      [] pos = "downloaded" -> "parse"
      [] pos = "applying"   -> "apply"
      [] OTHER              -> "notify"

\* the loop end sends the bundle
SendsBundle(svc, mode) == svc = "openai" \/ (svc = "openai_legacy" /\ mode = "bundle")

\* builder.build: the input is decoded and the request document written at
\* jsonl_path (open(..., "w")).
RunBuild(r) ==
    /\ rpc[r] = "start" /\ MayRun(r)
    /\ files' = [files EXCEPT ![JsonlName(service[r], r)] = r]
    /\ rpc' = [rpc EXCEPT ![r] = "built"]
    /\ UNCHANGED <<service, notify_mode, deployment, seen, uploaded, uploads, jobs,
                   nlang, outputs, calls, err>>
    /\ UNCHANGED <<waitVars, buildVars, parseVars, applyVars, jsonVars, signalVars, decodeVars, loopVars>>

\* client.upload(jsonl_path): the file at jsonl_path is opened and sent.
RunUpload(r) ==
    /\ rpc[r] = "built" /\ MayRun(r)
    /\ uploads[r] < MaxCreations
    /\ IF files[JsonlName(service[r], r)] = 0
       THEN /\ rpc' = [rpc EXCEPT ![r] = "raised"]
            /\ err' = [err EXCEPT ![r] = "no request document"]
            /\ UNCHANGED <<uploaded, uploads>>
       ELSE /\ uploaded' = [uploaded EXCEPT ![r] = files[JsonlName(service[r], r)]]
            /\ uploads' = [uploads EXCEPT ![r] = @ + 1]
            /\ rpc' = [rpc EXCEPT ![r] = "uploaded"]
            /\ UNCHANGED err
    /\ UNCHANGED <<service, notify_mode, deployment, files, seen, jobs, nlang, outputs,
                   calls>>
    /\ UNCHANGED <<waitVars, buildVars, parseVars, applyVars, jsonVars, signalVars, decodeVars, loopVars>>

\* client.create_batch / create_batch_job
RunCreate(r) ==
    /\ rpc[r] = "uploaded" /\ MayRun(r)
    /\ jobs[r] < MaxCreations
    /\ jobs' = [jobs EXCEPT ![r] = @ + 1]
    /\ rpc' = [rpc EXCEPT ![r] = "created"]
    /\ UNCHANGED <<service, notify_mode, deployment, files, seen, uploaded, uploads,
                   nlang, outputs, calls, err>>
    /\ UNCHANGED <<waitVars, buildVars, parseVars, applyVars, jsonVars, signalVars, decodeVars, loopVars>>

\* One status query of wait_until_done that succeeds; a terminal state, once
\* returned, is returned ever after.
RunPoll(r) ==
    /\ rpc[r] \in {"created", "polling"} /\ MayRun(r)
    /\ \E s \in {"Running"} \cup completed_states :
         /\ seen[r] \in completed_states => s = seen[r]
         /\ seen' = [seen EXCEPT ![r] = s]
         /\ LET next == CASE s = "Running"   -> "polling"
                          [] s = "Succeeded" -> "waited"
                          [] OTHER           -> AfterFailedJob(service[r])
            IN /\ rpc' = [rpc EXCEPT ![r] = next]
               /\ err' = IF next = "raised" THEN [err EXCEPT ![r] = "job"] ELSE err
    /\ UNCHANGED <<service, notify_mode, deployment, files, uploaded, uploads, jobs,
                   nlang, outputs, calls>>
    /\ UNCHANGED <<waitVars, buildVars, parseVars, applyVars, jsonVars, signalVars, decodeVars, loopVars>>

\* client.download_results
RunDownload(r) ==
    /\ rpc[r] = "waited" /\ MayRun(r)
    /\ rpc' = [rpc EXCEPT ![r] = "downloaded"]
    /\ UNCHANGED <<service, notify_mode, deployment, files, seen, uploaded, uploads,
                   jobs, nlang, outputs, calls, err>>
    /\ UNCHANGED <<waitVars, buildVars, parseVars, applyVars, jsonVars, signalVars, decodeVars, loopVars>>

\* pricing and split_by_language: the mapping has some number of languages
RunParse(r) ==
    /\ rpc[r] = "downloaded" /\ MayRun(r)
    /\ \E n \in 0 .. MaxResultLangs : nlang' = [nlang EXCEPT ![r] = n]
    /\ rpc' = [rpc EXCEPT ![r] = "applying"]
    /\ UNCHANGED <<service, notify_mode, deployment, files, seen, uploaded, uploads,
                   jobs, outputs, calls, err>>
    /\ UNCHANGED <<waitVars, buildVars, parseVars, applyVars, jsonVars, signalVars, decodeVars, loopVars>>

\* One pass of "for language, lines in results.items()": apply_translations
\* writes the output file of the next language.
RunApply(r) ==
    /\ rpc[r] = "applying" /\ MayRun(r)
    /\ outputs[r] < nlang[r]
    /\ outputs' = [outputs EXCEPT ![r] = @ + 1]
    /\ rpc' = [rpc EXCEPT ![r] =
                 IF service[r] = "openai_legacy" /\ notify_mode[r] = "per_language"
                 THEN "written" ELSE "applying"]
    /\ UNCHANGED <<service, notify_mode, deployment, files, seen, uploaded, uploads,
                   jobs, nlang, calls, err>>
    /\ UNCHANGED <<waitVars, buildVars, parseVars, applyVars, jsonVars, signalVars, decodeVars, loopVars>>

\* per_language mode: the file just written is read back and sent.
RunNotifyLanguage(r) ==
    /\ rpc[r] = "written" /\ MayRun(r)
    /\ calls' = [calls EXCEPT ![r] =
                   Append(@, [kind |-> "language", carries |-> outputs[r],
                              written |-> outputs[r]])]
    /\ rpc' = [rpc EXCEPT ![r] = "applying"]
    /\ UNCHANGED <<service, notify_mode, deployment, files, seen, uploaded, uploads,
                   jobs, nlang, outputs, err>>
    /\ UNCHANGED <<waitVars, buildVars, parseVars, applyVars, jsonVars, signalVars, decodeVars, loopVars>>

\* The loop is over.  The OpenAI services send the bundle (the plain one in
\* bundle mode only); the Gemini service builds its result and returns,
\* sending nothing.  Outside a local deployment the async OpenAI service
\* goes on to delete its files.
RunNotify(r) ==
    /\ rpc[r] = "applying" /\ MayRun(r)
    /\ outputs[r] = nlang[r]
    /\ calls' = IF SendsBundle(service[r], notify_mode[r])
                THEN [calls EXCEPT ![r] =
                        Append(@, [kind |-> "bundle", carries |-> outputs[r],
                                   written |-> outputs[r]])]
                ELSE calls
    /\ rpc' = [rpc EXCEPT ![r] =
                 IF service[r] = "openai" /\ deployment # "local"
                 THEN "cleanup" ELSE "returned"]
    /\ UNCHANGED <<service, notify_mode, deployment, files, seen, uploaded, uploads,
                   jobs, nlang, outputs, err>>
    /\ UNCHANGED <<waitVars, buildVars, parseVars, applyVars, jsonVars, signalVars, decodeVars, loopVars>>

\* os.unlink(input_path); os.unlink(output_jsonl): FileNotFoundError when
\* the request document is no longer there.
RunCleanup(r) ==
    /\ rpc[r] = "cleanup" /\ MayRun(r)
    /\ IF files[JsonlName(service[r], r)] = 0
       THEN /\ rpc' = [rpc EXCEPT ![r] = "raised"]
            /\ err' = [err EXCEPT ![r] = "no request document"]
            /\ UNCHANGED files
       ELSE /\ files' = [files EXCEPT ![JsonlName(service[r], r)] = 0]
            /\ rpc' = [rpc EXCEPT ![r] = "returned"]
            /\ UNCHANGED err
    /\ UNCHANGED <<service, notify_mode, deployment, seen, uploaded, uploads, jobs,
                   nlang, outputs, calls>>
    /\ UNCHANGED <<waitVars, buildVars, parseVars, applyVars, jsonVars, signalVars, decodeVars, loopVars>>

\* The step the run is about to take raises (unreadable input, a provider
\* or network error, a parser or webhook exception): nothing in
\* translate_and_notify handles it.  A failing status query ends only the
\* OpenAI runs; the Gemini client logs it and polls again.  Once the loop
\* is over the step about to be taken is the bundle's webhook.send, whose
\* requests.post or raise_for_status raises when the delivery fails.
RunStepFails(r) ==
    /\ rpc[r] \in {"start", "built", "uploaded", "created", "polling", "waited",
                   "downloaded", "applying", "written"}
    /\ MayRun(r)
    /\ rpc[r] \in {"created", "polling"} => service[r] # "gemini"
    /\ rpc[r] = "applying" /\ outputs[r] = nlang[r] => SendsBundle(service[r], notify_mode[r])
    /\ rpc' = [rpc EXCEPT ![r] = "raised"]
    /\ err' = [err EXCEPT ![r] = IF rpc[r] = "applying" /\ outputs[r] = nlang[r]
                                  THEN "notify" ELSE FailureAt(rpc[r])]
    /\ UNCHANGED <<service, notify_mode, deployment, files, seen, uploaded, uploads,
                   jobs, nlang, outputs, calls>>
    /\ UNCHANGED <<waitVars, buildVars, parseVars, applyVars, jsonVars, signalVars, decodeVars, loopVars>>

InitRun ==
    /\ service \in [Runs -> Services]
    /\ notify_mode \in [Runs -> {"per_language", "bundle"}]
    /\ \A r \in Runs : notify_mode[r] \in NotifyModes(service[r])
    /\ deployment \in {"local", "prod"}
    /\ files = [n \in JsonlNames |-> 0]
    /\ rpc = [r \in Runs |-> "start"]
    /\ seen = [r \in Runs |-> "none"]
    /\ uploaded = [r \in Runs |-> 0]
    /\ uploads = [r \in Runs |-> 0]
    /\ jobs = [r \in Runs |-> 0]
    /\ nlang = [r \in Runs |-> 0]
    /\ outputs = [r \in Runs |-> 0]
    /\ calls = [r \in Runs |-> <<>>]
    /\ err = [r \in Runs |-> "none"]
    /\ client = "none" /\ jobState = "none" /\ jobError = "" /\ jobUsage = "absent"
    /\ jobDest = FALSE /\ observed = "none" /\ wpc = "idle" /\ outcome = NoOutcome
    /\ failures = 0
    /\ builder = "none" /\ subtitles = <<>> /\ languages = <<>> /\ batch_size = 0
    /\ doc = <<>> /\ li = 0 /\ ci = 0 /\ bpc = "idle"
    /\ parser = "none" /\ batch_output = <<>> /\ lineNo = 0 /\ results = <<>>
    /\ ppc = "idle"
    /\ applier = "none" /\ original = <<>> /\ translated_lines = <<>> /\ item_no = 0
    /\ work = <<>> /\ translation_map = {} /\ output_srt = NoFile /\ apc = "idle"
    /\ jparser = "none" /\ llm_content = NoText /\ jpc = "idle" /\ jresult = <<>>
    /\ sig = 0 /\ rsig = 0 /\ osig = <<>> /\ orsig = <<>> /\ tpc = <<>>
    /\ status = <<>>
    /\ dside = "none" /\ dfile = <<>> /\ dtry = 0 /\ dpc = "idle" /\ benc = "none"
    /\ aenc = "none"
    /\ lservice = "none" /\ lrequested = <<>> /\ ldoc = <<>> /\ lresults = <<>>
    /\ lpos = 0 /\ lwritten = {} /\ lreported = <<>> /\ lpc = "idle"

NextRun ==
    \/ \E r \in Runs : RunBuild(r)
    \/ \E r \in Runs : RunUpload(r)
    \/ \E r \in Runs : RunCreate(r)
    \/ \E r \in Runs : RunPoll(r)
    \/ \E r \in Runs : RunDownload(r)
    \/ \E r \in Runs : RunParse(r)
    \/ \E r \in Runs : RunApply(r)
    \/ \E r \in Runs : RunNotifyLanguage(r)
    \/ \E r \in Runs : RunNotify(r)
    \/ \E r \in Runs : RunCleanup(r)
    \/ \E r \in Runs : RunStepFails(r)

SpecRun == InitRun /\ [][NextRun]_vars

\* ---- what a run owes its caller ----

FailedEarly(r) == err[r] \in {"decode", "upload", "create", "job"}

\* C16: a run writes no output file before it has seen the job Succeeded and
\* downloaded the result document; a run that fails at decode, upload or job
\* creation, or whose job ends in a terminal state other than success, ends
\* with an error raised and has written no output file.
C16_NoOutputUnlessSucceeded ==
    \A r \in Runs :
      /\ outputs[r] > 0 =>
           seen[r] = "Succeeded" /\ rpc[r] \notin {"start", "built", "uploaded", "created",
                                                    "polling", "waited", "downloaded"}
      /\ FailedEarly(r) => rpc[r] = "raised" /\ outputs[r] = 0
      /\ seen[r] \in FailedStates => rpc[r] = "raised" /\ outputs[r] = 0

\* C17: two interleaved runs share no mutable file: the document a run
\* uploads holds the requests that run built, the document is still the
\* run's own while the run needs it, and no run fails because the other has
\* deleted it.
C17_RunsShareNoFile ==
    \A r \in Runs :
      /\ uploaded[r] \in {0, r}
      /\ rpc[r] = "built" => files[JsonlName(service[r], r)] = r
      /\ err[r] # "no request document"

Rank(pos) ==
    CASE pos = "start"      -> 0
      [] pos = "built"      -> 1
      [] pos = "uploaded"   -> 2
      [] pos = "created"    -> 3
      [] pos = "polling"    -> 4
      [] pos = "waited"     -> 5
      [] pos = "downloaded" -> 6
      [] pos = "applying"   -> 7
      [] pos = "written"    -> 7
      [] pos = "cleanup"    -> 8
      [] OTHER              -> 9

\* C19: a run uploads at most once and creates at most one job; once it has
\* seen its job failed, cancelled or expired it uploads and creates nothing
\* more; after an error it does nothing at all; and it never goes back to an
\* earlier step.
C19_NoRetry ==
    [][\A r \in Runs :
         /\ uploads'[r] <= 1 /\ jobs'[r] <= 1
         /\ seen[r] \in FailedStates => uploads'[r] = uploads[r] /\ jobs'[r] = jobs[r]
         /\ rpc[r] = "raised" =>
              /\ rpc'[r] = "raised" /\ uploads'[r] = uploads[r] /\ jobs'[r] = jobs[r]
              /\ outputs'[r] = outputs[r] /\ calls'[r] = calls[r]
         /\ Rank(rpc'[r]) >= Rank(rpc[r])]_vars

C19_Witness ==
    \E r \in Runs :
      /\ rpc[r] = "raised" /\ err[r] = "job" /\ seen[r] \in FailedStates
      /\ uploads[r] = 1 /\ jobs[r] = 1
      /\ \E q \in Runs \ {r} : rpc[q] = "returned"

\* C20: a run that completes has sent its notification: one call for the run
\* in bundle mode, or one call per reassembled language in per-language
\* mode, each call made after the output files it carries were written; for
\* the OpenAI services and for the Gemini service.
C20_NotificationSent ==
    \A r \in Runs :
      /\ rpc[r] = "returned" =>
           CASE service[r] = "gemini" ->
                  \/ Len(calls[r]) = 1 /\ calls[r][1].kind = "bundle"
                  \/ Len(calls[r]) = nlang[r]
             [] notify_mode[r] = "bundle" ->
                  Len(calls[r]) = 1 /\ calls[r][1].kind = "bundle"
             [] OTHER ->
                  /\ Len(calls[r]) = nlang[r]
                  /\ \A k \in 1 .. Len(calls[r]) :
                       calls[r][k].kind = "language" /\ calls[r][k].carries = k
      /\ \A k \in 1 .. Len(calls[r]) : calls[r][k].carries <= calls[r][k].written

(***************************************************************************)
(* The usage a run feeds to cost accounting                                *)
(***************************************************************************)

NoTokens == [prompt_tokens |-> 0, completion_tokens |-> 0, total_tokens |-> 0]

\* the counts of the provider's metadata
ProviderTokens == [prompt_tokens |-> 7, completion_tokens |-> 5, total_tokens |-> 12]

\* OpenAI: Usage(prompt_tokens=usage.get("input_tokens", 0), ...);
\* Gemini: usage.get('prompt_tokens', 0), ...
UsageFed(usage) ==
    IF usage \in {"empty", ZeroUsage} THEN NoTokens ELSE ProviderTokens

\* C18: when the job succeeds and its metadata carries no usage data,
\* wait_until_done returns (it does not raise), and the usage fed to cost
\* accounting has prompt, completion and total tokens all 0.
C18_NoUsageMeansZero ==
    (observed = "Succeeded" /\ jobUsage = "absent") =>
      /\ wpc = "returned"
      /\ outcome.kind = "returned"
      /\ UsageFed(outcome.usage) = NoTokens

C18_Witness ==
    /\ wpc = "returned" /\ observed = "Succeeded" /\ jobUsage = "absent"
    /\ client = "openai" /\ outcome.usage = "empty"

(***************************************************************************)
(* Notification failures                                                   *)
(***************************************************************************)

\* webhook.send raised in the run: requests.post failed or the answer was
\* an error status
DeliveryFailed(r) == err[r] = "notify"

\* C21: a notification delivery that fails is absorbed by the run: the run
\* does not end raised because of it, and every language of the result
\* mapping still gets its output file.
C21_DeliveryFailureAbsorbed ==
    \A r \in Runs :
        DeliveryFailed(r) => /\ rpc[r] # "raised"
                             /\ (rpc[r] = "returned" => outputs[r] = nlang[r])

(***************************************************************************)
(* Reassembly: duplicates and what is left untouched                       *)
(***************************************************************************)

\* positions of translated_lines holding an index/content pair for the
\* record at 0-based position i
EntriesFor(i) ==
    {q \in 1 .. Len(translated_lines) :
       translated_lines[q].kind = "pair" /\ translated_lines[q].index = i}

LastEntryFor(i) == translated_lines[CHOOSE q \in EntriesFor(i) : \A p \in EntriesFor(i) : p <= q]

\* C22: when the recovered translations hold several entries for one index,
\* the reassembled record carries the content of the entry that comes last
\* in the list, and no content of an earlier entry is left, in the record or
\* in the output file; the file shows the last content whenever that is
\* not blank.
C22_LastDuplicateWins ==
    (apc = "returned" /\ output_srt.written) =>
      \A i \in 1 .. Len(original) :
         Cardinality(EntriesFor(i - 1)) >= 2 =>
           /\ Reassembled[i].content = LastEntryFor(i - 1).content
           /\ ~Blank(LastEntryFor(i - 1).content) =>
                OutputHas(i, LastEntryFor(i - 1).content)
           /\ \A c \in TranslationsFor(i - 1) \ {LastEntryFor(i - 1).content} :
                ~OutputHas(i, c)

C22_Witness ==
    /\ apc = "returned" /\ output_srt.written
    /\ \E i \in 1 .. Len(original) :
         /\ Cardinality(EntriesFor(i - 1)) >= 2
         /\ Cardinality(TranslationsFor(i - 1)) >= 2
         /\ OutputHas(i, LastEntryFor(i - 1).content)


\* C23: reassembly changes nothing but the text of the records that have a
\* recovered translation: the output has a record for every input record,
\* at the same position and with the same timing, and a record without a
\* recovered translation keeps its text.
C23_OnlyTextChanges ==
    output_srt.written =>
      /\ Len(output_srt.records) = Len(original)
      /\ \A k \in 1 .. Len(output_srt.records) :
           /\ k <= Len(original) => output_srt.records[k].start = original[k].start
           /\ (k <= Len(original) /\ TranslationsFor(k - 1) = {}) =>
                output_srt.records[k].content = original[k].content


(***************************************************************************)
(* Signal patching: SignalPatcher of services/translator.py and the worker *)
(* of test_signal_fix.py                                                   *)
(*                                                                         *)
(* signal.signal and signal.raise_signal are attributes of one module      *)
(* object shared by all threads.  Every worker thread reads them, installs *)
(* its wrappers, runs its body and puts back what it read; the interpreter  *)
(* may switch threads between any two of these statements.  A function is  *)
(* named by 0, the builtin, or by the thread whose wrapper it is.         *)
(***************************************************************************)

\* number of worker threads
MaxThreads == 3

Threads == 1 .. MaxThreads

\* the function the signal module came with
Builtin == 0

Functions == {Builtin} \cup Threads

\* signal.signal(sig, handler) called on a worker thread through function f:
\* the builtin raises ValueError("signal only works in main thread ...");
\* safe_signal of thread f calls the original_signal it closed over and
\* turns that ValueError into a return of None.
RECURSIVE CallSignal(_, _)
CallSignal(f, captured) ==
    IF f = Builtin THEN "ValueError"
    ELSE IF CallSignal(captured[f], captured) = "ValueError" THEN "None"
    ELSE CallSignal(captured[f], captured)

\* original_signal = signal.signal
ReadSignal(t) ==
    /\ tpc[t] = "start"
    /\ osig' = [osig EXCEPT ![t] = sig]
    /\ tpc' = [tpc EXCEPT ![t] = "read"]
    /\ UNCHANGED <<sig, rsig, orsig, status>>
    /\ UNCHANGED <<waitVars, buildVars, parseVars, applyVars, jsonVars, runVars, decodeVars, loopVars>>

\* original_raise_signal = getattr(signal, 'raise_signal', None)
ReadRaiseSignal(t) ==
    /\ tpc[t] = "read"
    /\ orsig' = [orsig EXCEPT ![t] = rsig]
    /\ tpc' = [tpc EXCEPT ![t] = "read2"]
    /\ UNCHANGED <<sig, rsig, osig, status>>
    /\ UNCHANGED <<waitVars, buildVars, parseVars, applyVars, jsonVars, runVars, decodeVars, loopVars>>

\* signal.signal = safe_signal
PatchSignal(t) ==
    /\ tpc[t] = "read2"
    /\ sig' = t
    /\ tpc' = [tpc EXCEPT ![t] = "patched"]
    /\ UNCHANGED <<rsig, osig, orsig, status>>
    /\ UNCHANGED <<waitVars, buildVars, parseVars, applyVars, jsonVars, runVars, decodeVars, loopVars>>

\* signal.raise_signal = safe_raise_signal
PatchRaiseSignal(t) ==
    /\ tpc[t] = "patched"
    /\ rsig' = t
    /\ tpc' = [tpc EXCEPT ![t] = "body"]
    /\ UNCHANGED <<sig, osig, orsig, status>>
    /\ UNCHANGED <<waitVars, buildVars, parseVars, applyVars, jsonVars, runVars, decodeVars, loopVars>>

\* The body calls signal.signal(2, handler) through the module attribute: a
\* ValueError leaves the body, anything else lets it report success.
BodyCallsSignal(t) ==
    /\ tpc[t] = "body"
    /\ status' = [status EXCEPT ![t] =
                    IF CallSignal(sig, osig) = "ValueError" THEN "error" ELSE "success"]
    /\ tpc' = [tpc EXCEPT ![t] = "exit"]
    /\ UNCHANGED <<sig, rsig, osig, orsig>>
    /\ UNCHANGED <<waitVars, buildVars, parseVars, applyVars, jsonVars, runVars, decodeVars, loopVars>>

\* The body ends with an exception of its own (translator.translate()
\* fails): the context is left by exception.
BodyRaises(t) ==
    /\ tpc[t] = "body"
    /\ status' = [status EXCEPT ![t] = "failed"]
    /\ tpc' = [tpc EXCEPT ![t] = "exit"]
    /\ UNCHANGED <<sig, rsig, osig, orsig>>
    /\ UNCHANGED <<waitVars, buildVars, parseVars, applyVars, jsonVars, runVars, decodeVars, loopVars>>

\* signal.signal = original_signal
RestoreSignal(t) ==
    /\ tpc[t] = "exit"
    /\ sig' = osig[t]
    /\ tpc' = [tpc EXCEPT ![t] = "exit2"]
    /\ UNCHANGED <<rsig, osig, orsig, status>>
    /\ UNCHANGED <<waitVars, buildVars, parseVars, applyVars, jsonVars, runVars, decodeVars, loopVars>>

\* signal.raise_signal = original_raise_signal
RestoreRaiseSignal(t) ==
    /\ tpc[t] = "exit2"
    /\ rsig' = orsig[t]
    /\ tpc' = [tpc EXCEPT ![t] = "done"]
    /\ UNCHANGED <<sig, osig, orsig, status>>
    /\ UNCHANGED <<waitVars, buildVars, parseVars, applyVars, jsonVars, runVars, decodeVars, loopVars>>

InitSignal ==
    /\ sig = Builtin /\ rsig = Builtin
    /\ osig = [t \in Threads |-> Builtin]
    /\ orsig = [t \in Threads |-> Builtin]
    /\ tpc = [t \in Threads |-> "start"]
    /\ status = [t \in Threads |-> "none"]
    /\ client = "none" /\ jobState = "none" /\ jobError = "" /\ jobUsage = "absent"
    /\ jobDest = FALSE /\ observed = "none" /\ wpc = "idle" /\ outcome = NoOutcome
    /\ failures = 0
    /\ builder = "none" /\ subtitles = <<>> /\ languages = <<>> /\ batch_size = 0
    /\ doc = <<>> /\ li = 0 /\ ci = 0 /\ bpc = "idle"
    /\ parser = "none" /\ batch_output = <<>> /\ lineNo = 0 /\ results = <<>>
    /\ ppc = "idle"
    /\ applier = "none" /\ original = <<>> /\ translated_lines = <<>> /\ item_no = 0
    /\ work = <<>> /\ translation_map = {} /\ output_srt = NoFile /\ apc = "idle"
    /\ jparser = "none" /\ llm_content = NoText /\ jpc = "idle" /\ jresult = <<>>
    /\ service = <<>> /\ notify_mode = <<>> /\ deployment = "local" /\ files = <<>>
    /\ rpc = <<>> /\ seen = <<>> /\ uploaded = <<>> /\ uploads = <<>> /\ jobs = <<>>
    /\ nlang = <<>> /\ outputs = <<>> /\ calls = <<>> /\ err = <<>>
    /\ dside = "none" /\ dfile = <<>> /\ dtry = 0 /\ dpc = "idle" /\ benc = "none"
    /\ aenc = "none"
    /\ lservice = "none" /\ lrequested = <<>> /\ ldoc = <<>> /\ lresults = <<>>
    /\ lpos = 0 /\ lwritten = {} /\ lreported = <<>> /\ lpc = "idle"

NextSignal ==
    \/ \E t \in Threads : ReadSignal(t)
    \/ \E t \in Threads : ReadRaiseSignal(t)
    \/ \E t \in Threads : PatchSignal(t)
    \/ \E t \in Threads : PatchRaiseSignal(t)
    \/ \E t \in Threads : BodyCallsSignal(t)
    \/ \E t \in Threads : BodyRaises(t)
    \/ \E t \in Threads : RestoreSignal(t)
    \/ \E t \in Threads : RestoreRaiseSignal(t)

SpecSignal == InitSignal /\ [][NextSignal]_vars

\* C24: when several worker threads run the patched worker at once, every
\* call of signal.signal made inside a patched section completes without
\* the ValueError, so no worker reports an error.
C24_PatchedCallSucceeds == \A t \in Threads : status[t] # "error"

\* C25: once every context that was entered has exited, signal.signal and
\* signal.raise_signal are the functions installed before the first entry.
C25_RestoredAfterAllExit ==
    (\A t \in Threads : tpc[t] \in {"start", "done"}) =>
      (sig = Builtin /\ rsig = Builtin)


(***************************************************************************)
(* Decoding of the input file by the builder and by the reassembler        *)
(*                                                                         *)
(* A file is described by what chardet.detect reports for its first 10000  *)
(* bytes and by the set of encodings that decode it without                *)
(* UnicodeDecodeError.  Encoding names are normalised: ISO-8859-1 is       *)
(* latin-1, Windows-1252 is cp1252.                                        *)
(***************************************************************************)

Encodings == {"ascii", "utf-8", "utf-8-sig", "utf-16", "latin-1", "cp1252"}

\* chardet results: confidence in percent; no encoding comes with confidence 0
ChardetResults ==
    [encoding : Encodings, confidence : {73, 100}]
      \cup {[encoding |-> "None", confidence |-> 0], [encoding |-> "cp1252", confidence |-> 50]}

\* detect_file_encoding: utf-8 when the confidence is below 0.7
detect_file_encoding(result) ==
    IF result.confidence < 70 THEN "utf-8" ELSE result.encoding

\* The sets of encodings that can decode one file: latin-1 decodes every
\* byte string, a pure ASCII file is decoded by every ASCII-compatible
\* codec, and utf-8-sig decodes what utf-8 decodes.
DecodableSets ==
    {S \in SUBSET Encodings :
       /\ "latin-1" \in S
       /\ "ascii" \in S => {"utf-8", "cp1252"} \subseteq S
       /\ "utf-8" \in S <=> "utf-8-sig" \in S}

InputFiles == [chardet : ChardetResults, decodable : DecodableSets]

fallback_encodings == <<"utf-8", "utf-16", "latin-1", "cp1252">>

\* the encodings build tries, in order
BuildOrder(side, file) ==
    IF side = "openai_legacy" THEN <<"utf-8">>
    ELSE <<detect_file_encoding(file.chardet)>> \o fallback_encodings

\* the encodings apply_translations tries, in order: the OpenAI parser
\* starts with utf-8 and tries the detected encoding second
ApplyOrder(side, file) ==
    CASE side = "openai_legacy" -> <<"utf-8">>
      [] side = "openai" ->
           <<"utf-8", detect_file_encoding(file.chardet)>> \o Tail(fallback_encodings)
      [] OTHER -> <<detect_file_encoding(file.chardet)>> \o fallback_encodings

\* The text f.read() yields: a pure ASCII file reads the same under every
\* ASCII-compatible codec, utf-8-sig reads as utf-8 does (up to the byte
\* order mark), any other two encodings yield different characters.
ReadText(file, enc) ==
    IF "ascii" \in file.decodable /\ enc # "utf-16" THEN "ascii"
    ELSE IF enc = "utf-8-sig" THEN "utf-8"
    ELSE enc

DecodeOrder == IF dpc = "build" THEN BuildOrder(dside, dfile) ELSE ApplyOrder(dside, dfile)

\* open(..., encoding=enc).read() raises UnicodeDecodeError and another
\* encoding is left to try.
DecodeFails ==
    /\ dpc \in {"build", "apply"}
    /\ dtry + 1 < Len(DecodeOrder)
    /\ DecodeOrder[dtry + 1] \notin dfile.decodable
    /\ dtry' = dtry + 1
    /\ UNCHANGED <<dside, dfile, dpc, benc, aenc>>
    /\ UNCHANGED <<waitVars, buildVars, parseVars, applyVars, jsonVars, runVars, signalVars, loopVars>>

\* build reads the file with the encoding it is trying.
BuildReads ==
    /\ dpc = "build"
    /\ DecodeOrder[dtry + 1] \in dfile.decodable
    /\ benc' = DecodeOrder[dtry + 1]
    /\ dpc' = "apply"
    /\ dtry' = 0
    /\ UNCHANGED <<dside, dfile, aenc>>
    /\ UNCHANGED <<waitVars, buildVars, parseVars, applyVars, jsonVars, runVars, signalVars, loopVars>>

\* apply_translations reads the file with the encoding it is trying.
ApplyReads ==
    /\ dpc = "apply"
    /\ DecodeOrder[dtry + 1] \in dfile.decodable
    /\ aenc' = DecodeOrder[dtry + 1]
    /\ dpc' = "done"
    /\ UNCHANGED <<dside, dfile, dtry, benc>>
    /\ UNCHANGED <<waitVars, buildVars, parseVars, applyVars, jsonVars, runVars, signalVars, loopVars>>

\* The last encoding fails too: ValueError, or the UnicodeDecodeError of
\* the readers that try utf-8 only.
DecodeRaises ==
    /\ dpc \in {"build", "apply"}
    /\ dtry + 1 = Len(DecodeOrder)
    /\ DecodeOrder[dtry + 1] \notin dfile.decodable
    /\ dpc' = "raised"
    /\ UNCHANGED <<dside, dfile, dtry, benc, aenc>>
    /\ UNCHANGED <<waitVars, buildVars, parseVars, applyVars, jsonVars, runVars, signalVars, loopVars>>

InitDecode ==
    /\ dside \in {"gemini", "openai", "openai_legacy"}
    /\ dfile \in InputFiles
    /\ dtry = 0 /\ dpc = "build" /\ benc = "none" /\ aenc = "none"
    /\ client = "none" /\ jobState = "none" /\ jobError = "" /\ jobUsage = "absent"
    /\ jobDest = FALSE /\ observed = "none" /\ wpc = "idle" /\ outcome = NoOutcome
    /\ failures = 0
    /\ builder = "none" /\ subtitles = <<>> /\ languages = <<>> /\ batch_size = 0
    /\ doc = <<>> /\ li = 0 /\ ci = 0 /\ bpc = "idle"
    /\ parser = "none" /\ batch_output = <<>> /\ lineNo = 0 /\ results = <<>>
    /\ ppc = "idle"
    /\ applier = "none" /\ original = <<>> /\ translated_lines = <<>> /\ item_no = 0
    /\ work = <<>> /\ translation_map = {} /\ output_srt = NoFile /\ apc = "idle"
    /\ jparser = "none" /\ llm_content = NoText /\ jpc = "idle" /\ jresult = <<>>
    /\ service = <<>> /\ notify_mode = <<>> /\ deployment = "local" /\ files = <<>>
    /\ rpc = <<>> /\ seen = <<>> /\ uploaded = <<>> /\ uploads = <<>> /\ jobs = <<>>
    /\ nlang = <<>> /\ outputs = <<>> /\ calls = <<>> /\ err = <<>>
    /\ sig = 0 /\ rsig = 0 /\ osig = <<>> /\ orsig = <<>> /\ tpc = <<>>
    /\ status = <<>>
    /\ lservice = "none" /\ lrequested = <<>> /\ ldoc = <<>> /\ lresults = <<>>
    /\ lpos = 0 /\ lwritten = {} /\ lreported = <<>> /\ lpc = "idle"

NextDecode == DecodeFails \/ BuildReads \/ ApplyReads \/ DecodeRaises

SpecDecode == InitDecode /\ [][NextDecode]_vars

\* C26: the builder and the reassembler decode the same file the same way:
\* once both have read it, the encoding apply_translations read it with
\* yields the text the encoding of build yielded.
C26_SameDecoding ==
    dpc = "done" => ReadText(dfile, aenc) = ReadText(dfile, benc)


(***************************************************************************)
(* The loop over the languages in translate_and_notify: every language of  *)
(* the mapping split_by_language returned is reassembled and reported      *)
(***************************************************************************)

\* split_by_language as one function: the loop over the lines
RECURSIVE SplitFrom(_, _, _)
SplitFrom(ps, lines, res) ==
    IF lines = <<>> THEN [raised |-> FALSE, results |-> res]
    ELSE CASE LineEffect(ps, Head(lines)).kind = "raise" ->
                [raised |-> TRUE, results |-> <<>>]
           [] LineEffect(ps, Head(lines)).kind = "skip" ->
                SplitFrom(ps, Tail(lines), res)
           [] OTHER ->
                SplitFrom(ps, Tail(lines),
                          ExtendResults(res, LineEffect(ps, Head(lines)).language,
                                        LineEffect(ps, Head(lines)).items))

split_by_language(ps, batch) == SplitFrom(ps, batch, <<>>)

\* the original of the run: MaxRecords records
LoopOriginal == [i \in 1 .. MaxRecords |-> [start |-> i, content |-> OrigText[i]]]

\* the OpenAI loop over translated_lines raises at some element
RECURSIVE OpenAIApplyRaises(_, _)
OpenAIApplyRaises(subs, lines) ==
    IF lines = <<>> THEN FALSE
    ELSE OpenAIItem(subs, Head(lines)).raise \/ OpenAIApplyRaises(subs, Tail(lines))

\* what apply_translations does with the list of one language: the Gemini
\* parser returns at once, writing nothing, when the list is empty
ApplyOutcome(svc, lines) ==
    IF svc = "gemini" THEN (IF lines = <<>> THEN "nothing" ELSE "written")
    ELSE IF OpenAIApplyRaises(LoopOriginal, lines) THEN "raise" ELSE "written"

\* results = split_by_language(batch_output)
LoopSplit ==
    /\ lpc = "split"
    /\ IF split_by_language(lservice, ldoc).raised
       THEN lpc' = "raised" /\ UNCHANGED lresults
       ELSE lpc' = "loop" /\ lresults' = split_by_language(lservice, ldoc).results
    /\ UNCHANGED <<lservice, lrequested, ldoc, lpos, lwritten, lreported>>
    /\ UNCHANGED <<waitVars, buildVars, parseVars, applyVars, jsonVars, runVars, signalVars,
                   decodeVars>>

\* One pass of "for language, lines in results.items()": apply_translations
\* returns, and the language is appended to translated_files (Gemini) or
\* to bundle_payload (OpenAI).
LoopApply ==
    /\ lpc = "loop" /\ lpos < Len(lresults)
    /\ ApplyOutcome(lservice, lresults[lpos + 1].items) # "raise"
    /\ lwritten' = IF ApplyOutcome(lservice, lresults[lpos + 1].items) = "written"
                   THEN lwritten \cup {lresults[lpos + 1].language}
                   ELSE lwritten
    /\ lreported' = Append(lreported, lresults[lpos + 1].language)
    /\ lpos' = lpos + 1
    /\ UNCHANGED <<lservice, lrequested, ldoc, lresults, lpc>>
    /\ UNCHANGED <<waitVars, buildVars, parseVars, applyVars, jsonVars, runVars, signalVars,
                   decodeVars>>

\* apply_translations raises: the exception leaves translate_and_notify.
LoopApplyRaises ==
    /\ lpc = "loop" /\ lpos < Len(lresults)
    /\ ApplyOutcome(lservice, lresults[lpos + 1].items) = "raise"
    /\ lpc' = "raised"
    /\ UNCHANGED <<lservice, lrequested, ldoc, lresults, lpos, lwritten, lreported>>
    /\ UNCHANGED <<waitVars, buildVars, parseVars, applyVars, jsonVars, runVars, signalVars,
                   decodeVars>>

\* The loop is over: the result is built and returned.
LoopReturn ==
    /\ lpc = "loop" /\ lpos = Len(lresults)
    /\ lpc' = "returned"
    /\ UNCHANGED <<lservice, lrequested, ldoc, lresults, lpos, lwritten, lreported>>
    /\ UNCHANGED <<waitVars, buildVars, parseVars, applyVars, jsonVars, runVars, signalVars,
                   decodeVars>>

InitLoop ==
    /\ lservice \in Services
    /\ lrequested \in LangLists
    /\ ldoc \in Documents
    /\ lresults = <<>> /\ lpos = 0 /\ lwritten = {} /\ lreported = <<>> /\ lpc = "split"
    /\ client = "none" /\ jobState = "none" /\ jobError = "" /\ jobUsage = "absent"
    /\ jobDest = FALSE /\ observed = "none" /\ wpc = "idle" /\ outcome = NoOutcome
    /\ failures = 0
    /\ builder = "none" /\ subtitles = <<>> /\ languages = <<>> /\ batch_size = 0
    /\ doc = <<>> /\ li = 0 /\ ci = 0 /\ bpc = "idle"
    /\ parser = "none" /\ batch_output = <<>> /\ lineNo = 0 /\ results = <<>>
    /\ ppc = "idle"
    /\ applier = "none" /\ original = <<>> /\ translated_lines = <<>> /\ item_no = 0
    /\ work = <<>> /\ translation_map = {} /\ output_srt = NoFile /\ apc = "idle"
    /\ jparser = "none" /\ llm_content = NoText /\ jpc = "idle" /\ jresult = <<>>
    /\ service = <<>> /\ notify_mode = <<>> /\ deployment = "local" /\ files = <<>>
    /\ rpc = <<>> /\ seen = <<>> /\ uploaded = <<>> /\ uploads = <<>> /\ jobs = <<>>
    /\ nlang = <<>> /\ outputs = <<>> /\ calls = <<>> /\ err = <<>>
    /\ sig = 0 /\ rsig = 0 /\ osig = <<>> /\ orsig = <<>> /\ tpc = <<>>
    /\ status = <<>>
    /\ dside = "none" /\ dfile = <<>> /\ dtry = 0 /\ dpc = "idle" /\ benc = "none"
    /\ aenc = "none"

NextLoop == LoopSplit \/ LoopApply \/ LoopApplyRaises \/ LoopReturn

SpecLoop == InitLoop /\ [][NextLoop]_vars

\* C27: every entry of translated_files in the result the Gemini service
\* returns names an output file written during the run.
C27_ReportedFilesWritten ==
    (lservice = "gemini" /\ lpc = "returned") =>
      \A k \in 1 .. Len(lreported) : lreported[k] \in lwritten

\* C29: every language a run writes an output file for, or reports, is one
\* of the languages passed to the run; and a requested language without a
\* surviving result record gets no output file and no entry.
C29_OnlyRequestedLanguages ==
    /\ \A l \in lwritten \cup Range(lreported) : l \in Range(lrequested)
    /\ lpc = "returned" =>
         \A k \in 1 .. Len(lrequested) :
            GroupOf(lresults, lrequested[k]) = {} =>
              lrequested[k] \notin lwritten \cup Range(lreported)


(***************************************************************************)
(* The instruction text of a request                                       *)
(***************************************************************************)

\* C28: every request built for a language names that language in its
\* instruction text, so two requests for the same chunk and different
\* languages differ in their instruction.
C28_InstructionNamesLanguage ==
    /\ \A e \in 1 .. Len(doc) : doc[e].instruction = KeyLanguage(doc[e].key)
    /\ \A e, f \in 1 .. Len(doc) :
         (doc[e].payload = doc[f].payload
            /\ KeyLanguage(doc[e].key) # KeyLanguage(doc[f].key)) =>
           doc[e].instruction # doc[f].instruction


(***************************************************************************)
(* Failed status queries in the Gemini client                              *)
(***************************************************************************)

GeminiWaitEnded == client = "gemini" /\ wpc \in {"returned", "raised"}

\* C30: in the Gemini wait_until_done a status query that fails never ends
\* the wait, the client sleeps and queries again; the wait ends only in a
\* step whose query succeeded and reported a terminal state.
C30_FailedQueryKeepsWaiting ==
    [][/\ (client = "gemini" /\ failures' > failures) =>
            (wpc = "poll" /\ wpc' = "sleep" /\ outcome' = NoOutcome)
       /\ (client = "gemini" /\ wpc \in {"poll", "sleep"}
             /\ wpc' \in {"returned", "raised"}) =>
            /\ wpc = "poll"
            /\ failures' = failures
            /\ observed' = jobState
            /\ observed' \in completed_states]_vars

C30_Witness ==
    /\ GeminiWaitEnded
    /\ failures = MaxFailures
    /\ observed \in completed_states


====
